---- MODULE Spec2Model ----
(***************************************************************************)
(* Model of parseMarkdown in src/client/app/page.tsx: the text normaliser  *)
(* (decodeHtmlEntities and the replacement chain), the split into lines    *)
(* and the line scanner with its code, heading, table, list and paragraph  *)
(* branches.                                                               *)
(*                                                                         *)
(* A string is a sequence of characters.  A character is a one-character   *)
(* string; the characters TLA+ strings cannot spell are named: "LF" is the *)
(* line feed, "TAB" the tabulation, "QUOTE" the double quote, "BACKTICK"   *)
(* the backtick and "U+XXXX" the code point XXXX.  The cursor i is 0-based *)
(* as in the source, so lines[i] of the source is LineAt(i) here.          *)
(***************************************************************************)
EXTENDS Integers, Sequences, FiniteSets, TLC

\* Largest number of lines of an input text.
MaxLines == 3

\* The largest number of pieces of a text for the normaliser.
MaxPieces == 2

\* The largest number of characters of a text with inline markers.
MaxInline == 5

\* The largest number of calls of parseMarkdown in a row.
MaxCalls == 3

\* The largest number of lines of a text about headings.
MaxHeadingLines == 3

\* ------------------------------------------------------------------------
\* Strings
\* ------------------------------------------------------------------------

\* Characters String.prototype.trim strips and \s matches (no LF: a line
\* never holds one after split).
WS == {" ", "TAB"}

\* Characters \d matches.
Digits == {"0", "1", "2", "3", "4", "5", "6", "7", "8", "9"}

\* s.slice(n): s without its first n characters.
Drop(s, n) == IF n >= Len(s) THEN <<>> ELSE SubSeq(s, n + 1, Len(s))

RECURSIVE TrimStart(_)
TrimStart(s) ==
  IF s # <<>> /\ Head(s) \in WS THEN TrimStart(Tail(s)) ELSE s

RECURSIVE TrimEnd(_)
TrimEnd(s) ==
  IF s # <<>> /\ s[Len(s)] \in WS THEN TrimEnd(SubSeq(s, 1, Len(s) - 1)) ELSE s

\* String.prototype.trim
Trim(s) == TrimEnd(TrimStart(s))

\* String.prototype.startsWith
StartsWith(s, p) == Len(s) >= Len(p) /\ SubSeq(s, 1, Len(p)) = p

\* p occurs in s at position k (1-based).
MatchAt(s, p, k) == k + Len(p) - 1 <= Len(s) /\ SubSeq(s, k, k + Len(p) - 1) = p

\* s.replace(/p/g, r) for a literal pattern p: the matches are found left to
\* right and do not overlap; the replacement is not scanned again.
RECURSIVE ReplaceFrom(_, _, _, _, _)
ReplaceFrom(s, p, r, k, acc) ==
  LET ms == {m \in k..Len(s) : s[m] = p[1] /\ MatchAt(s, p, m)}
      m == CHOOSE m \in ms : \A o \in ms : m <= o
  IN  IF ms = {} THEN acc \o SubSeq(s, k, Len(s))
      ELSE ReplaceFrom(s, p, r, m + Len(p), acc \o SubSeq(s, k, m - 1) \o r)

ReplaceAll(s, p, r) ==
  IF \E k \in 1..Len(s) : s[k] = p[1] /\ MatchAt(s, p, k)
  THEN ReplaceFrom(s, p, r, 1, <<>>)
  ELSE s

\* s.split(sep) for a one-character separator: always at least one piece.
RECURSIVE SplitFrom(_, _, _, _, _)
SplitFrom(s, sep, k, cur, acc) ==
  LET ms == {m \in k..Len(s) : s[m] = sep}
      m == CHOOSE m \in ms : \A o \in ms : m <= o
  IN  IF ms = {} THEN Append(acc, cur \o SubSeq(s, k, Len(s)))
      ELSE SplitFrom(s, sep, m + 1, <<>>, Append(acc, cur \o SubSeq(s, k, m - 1)))

Split(s, sep) == SplitFrom(s, sep, 1, <<>>, <<>>)

\* Array.prototype.join with a one-character separator.
RECURSIVE Join(_, _)
Join(ss, sep) ==
  IF ss = <<>> THEN <<>>
  ELSE IF Len(ss) = 1 THEN ss[1]
  ELSE ss[1] \o <<sep>> \o Join(Tail(ss), sep)

\* Length of the longest run of characters of set cs in s from position k.
RECURSIVE RunLen(_, _, _)
RunLen(s, cs, k) ==
  IF k <= Len(s) /\ s[k] \in cs THEN 1 + RunLen(s, cs, k + 1) ELSE 0

\* ------------------------------------------------------------------------
\* Text normaliser
\* ------------------------------------------------------------------------

\* The character references the model knows, each with the character it
\* stands for (the browser knows the whole HTML table; these are the ones
\* the inputs of the model use).
Entities ==
  { << <<"&", "a", "m", "p", ";">>, "&" >>,
    << <<"&", "l", "t", ";">>, "<" >>,
    << <<"&", "#", "3", "5", ";">>, "#" >> }

\* textarea.innerHTML = text; textarea.value: every character reference is
\* replaced by its character, in one left-to-right pass.
RECURSIVE DecodeFrom(_, _, _)
DecodeFrom(s, k, acc) ==
  LET ms == {m \in k..Len(s) : s[m] = "&" /\ \E e \in Entities : MatchAt(s, e[1], m)}
      m == CHOOSE m \in ms : \A o \in ms : m <= o
      e == CHOOSE e \in Entities : MatchAt(s, e[1], m)
  IN  IF ms = {} THEN acc \o SubSeq(s, k, Len(s))
      ELSE DecodeFrom(s, m + Len(e[1]), Append(acc \o SubSeq(s, k, m - 1), e[2]))

\* The decoding with the value trimmed.
decodeHtmlEntities_Trimmed(s) ==
  Trim(IF \E k \in 1..Len(s) : s[k] = "&" THEN DecodeFrom(s, 1, <<>>) ELSE s)

decodeHtmlEntities(s) ==
  IF \E k \in 1..Len(s) : s[k] = "&" THEN DecodeFrom(s, 1, <<>>) ELSE s

\* page.tsx line 253
Pattern253 ==
  <<"U+00C3", "U+0192", "U+00C6", "U+2019", "U+00C3", "U+2020", "'", "U+00C3", "U+0192", "U+00E2", "U+20AC", "U+0161", "U+00C3", "U+201A", "U+00C2", "U+00B0", "U+00C3", "U+0192", "U+00C6", "U+2019", "U+00C3", "U+00A2", "U+00E2", "U+201A", "U+00AC", "U+00C2", "U+00A6", "U+00C3", "U+0192", "U+00E2", "U+20AC", "U+0161", "U+00C3", "U+201A", "U+00C2", "U+00B8", "U+00C3", "U+0192", "U+00C6", "U+2019", "U+00C3", "U+00A2", "U+00E2", "U+201A", "U+00AC", "U+00C2", "U+00A6", "U+00C3", "U+0192", "U+00E2", "U+20AC", "U+0161", "U+00C3", "U+201A", "U+00C2", "U+00A1", "U+00C3", "U+0192", "U+00C6", "U+2019", "U+00C3", "U+201A", "U+00C2", "U+00A2", "U+00C3", "U+0192", "U+00C2", "U+00A2", "U+00C3", "U+00A2", "U+00E2", "U+20AC", "U+0161", "U+00C2", "U+00AC", "U+00C3", "U+2026", "U+00C2", "U+00A1", "U+00C3", "U+0192", "U+00E2", "U+20AC", "U+0161", "U+00C3", "U+201A", "U+00C2", "U+00AC">>

Replacement253 ==
  <<"U+00C3", "U+0192", "U+00C6", "U+2019", "U+00C3", "U+201A", "U+00C2", "U+00B0", "U+00C3", "U+0192", "U+00E2", "U+20AC", "U+00A6", "U+00C3", "U+201A", "U+00C2", "U+00B8", "U+00C3", "U+0192", "U+00E2", "U+20AC", "U+00A6", "U+00C3", "U+201A", "U+00C2", "U+00A1", "U+00C3", "U+0192", "U+00C2", "U+00A2", "U+00C3", "U+00A2", "U+00E2", "U+201A", "U+00AC", "U+00C5", "U+00A1", "U+00C3", "U+201A", "U+00C2", "U+00AC">>

\* page.tsx line 254
Pattern254 ==
  <<"U+00C3", "U+0192", "U+00C6", "U+2019", "U+00C3", "U+2020", "'", "U+00C3", "U+0192", "U+00E2", "U+20AC", "U+0161", "U+00C3", "U+201A", "U+00C2", "U+00B0", "U+00C3", "U+0192", "U+00C6", "U+2019", "U+00C3", "U+00A2", "U+00E2", "U+201A", "U+00AC", "U+00C2", "U+00A6", "U+00C3", "U+0192", "U+00E2", "U+20AC", "U+0161", "U+00C3", "U+201A", "U+00C2", "U+00B8", "QUOTE">>

Replacement254 ==
  <<"U+00C3", "U+0192", "U+00C6", "U+2019", "U+00C3", "U+201A", "U+00C2", "U+00B0", "U+00C3", "U+0192", "U+00E2", "U+20AC", "U+00A6", "U+00C3", "U+201A", "U+00C2", "U+00B8", "QUOTE">>

\* page.tsx line 255
Pattern255 ==
  <<"U+00C3", "U+0192", "U+00C6", "U+2019", "U+00C3", "U+2020", "'", "U+00C3", "U+0192", "U+00E2", "U+20AC", "U+0161", "U+00C3", "U+201A", "U+00C2", "U+00B0", "U+00C3", "U+0192", "U+00C6", "U+2019", "U+00C3", "U+00A2", "U+00E2", "U+201A", "U+00AC", "U+00C2", "U+00A6", "U+00C3", "U+0192", "U+00E2", "U+20AC", "U+0161", "U+00C3", "U+201A", "U+00C2", "U+00B8", "QUOTE", "'">>

Replacement255 ==
  <<"U+00C3", "U+0192", "U+00C6", "U+2019", "U+00C3", "U+201A", "U+00C2", "U+00B0", "U+00C3", "U+0192", "U+00E2", "U+20AC", "U+00A6", "U+00C3", "U+201A", "U+00C2", "U+00B8", "QUOTE", "U+00C3", "U+0192", "U+00E2", "U+20AC", "U+00A6", "U+00C3", "U+201A", "U+00C2", "U+00A1">>

\* page.tsx line 256
Pattern256 ==
  <<"U+00C3", "U+0192", "U+00C6", "U+2019", "U+00C3", "U+2020", "'", "U+00C3", "U+0192", "U+00E2", "U+20AC", "U+0161", "U+00C3", "U+201A", "U+00C2", "U+00B0", "U+00C3", "U+0192", "U+00C6", "U+2019", "U+00C3", "U+00A2", "U+00E2", "U+201A", "U+00AC", "U+00C2", "U+00A6", "U+00C3", "U+0192", "U+00E2", "U+20AC", "U+0161", "U+00C3", "U+201A", "U+00C2", "U+00B8", "U+00C3", "U+0192", "U+00C6", "U+2019", "U+00C3", "U+00A2", "U+00E2", "U+201A", "U+00AC", "U+00C5", "U+00A1", "U+00C3", "U+0192", "U+00E2", "U+20AC", "U+0161", "U+00C3", "U+201A", "U+00C2", "U+00A7", " ">>

Replacement256 ==
  <<"U+00C3", "U+0192", "U+00C6", "U+2019", "U+00C3", "U+201A", "U+00C2", "U+00B0", "U+00C3", "U+0192", "U+00E2", "U+20AC", "U+00A6", "U+00C3", "U+201A", "U+00C2", "U+00B8", "U+00C3", "U+0192", "U+00E2", "U+20AC", "U+0161", "U+00C3", "U+201A", "U+00C2", "U+00A7", " ">>

\* page.tsx line 257
Pattern257 ==
  <<"U+00C3", "U+0192", "U+00C6", "U+2019", "U+00C3", "U+2020", "'", "U+00C3", "U+0192", "U+00E2", "U+20AC", "U+0161", "U+00C3", "U+201A", "U+00C2", "U+00A2", "U+00C3", "U+0192", "U+00C6", "U+2019", "U+00C3", "U+201A", "U+00C2", "U+00A2", "U+00C3", "U+0192", "U+00C2", "U+00A2", "U+00C3", "U+00A2", "U+00E2", "U+20AC", "U+0161", "U+00C2", "U+00AC", "U+00C3", "U+2026", "U+00C2", "U+00A1", "U+00C3", "U+0192", "U+00E2", "U+20AC", "U+0161", "U+00C3", "U+201A", "U+00C2", "U+00AC", "U+00C3", "U+0192", "U+00C6", "U+2019", "U+00C3", "U+00A2", "U+00E2", "U+201A", "U+00AC", "U+00C5", "U+00A1", "U+00C3", "U+0192", "U+00E2", "U+20AC", "U+0161", "U+00C3", "U+201A", "U+00C2", "U+00A2">>

Replacement257 ==
  <<"U+00C3", "U+0192", "U+00C6", "U+2019", "U+00C3", "U+201A", "U+00C2", "U+00A2", "U+00C3", "U+0192", "U+00C2", "U+00A2", "U+00C3", "U+00A2", "U+00E2", "U+201A", "U+00AC", "U+00C5", "U+00A1", "U+00C3", "U+201A", "U+00C2", "U+00AC", "U+00C3", "U+0192", "U+00E2", "U+20AC", "U+0161", "U+00C3", "U+201A", "U+00C2", "U+00A2">>

\* page.tsx line 258
Pattern258 ==
  <<"U+00C3", "U+0192", "U+00C6", "U+2019", "U+00C3", "U+2020", "'", "U+00C3", "U+0192", "U+00E2", "U+20AC", "U+0161", "U+00C3", "U+201A", "U+00C2", "U+00A2", "U+00C3", "U+0192", "U+00C6", "U+2019", "U+00C3", "U+201A", "U+00C2", "U+00A2", "U+00C3", "U+0192", "U+00C2", "U+00A2", "U+00C3", "U+00A2", "U+00E2", "U+20AC", "U+0161", "U+00C2", "U+00AC", "U+00C3", "U+2026", "U+00C2", "U+00A1", "U+00C3", "U+0192", "U+00E2", "U+20AC", "U+0161", "U+00C3", "U+201A", "U+00C2", "U+00AC", "QUOTE">>

Replacement258 ==
  <<"U+00C3", "U+0192", "U+00C6", "U+2019", "U+00C3", "U+201A", "U+00C2", "U+00A2", "U+00C3", "U+0192", "U+00C2", "U+00A2", "U+00C3", "U+00A2", "U+00E2", "U+201A", "U+00AC", "U+00C5", "U+00A1", "U+00C3", "U+201A", "U+00C2", "U+00AC", "QUOTE">>

\* page.tsx line 259
Pattern259 ==
  <<"U+00C3", "U+0192", "U+00C6", "U+2019", "U+00C3", "U+2020", "'", "U+00C3", "U+0192", "U+00E2", "U+20AC", "U+0161", "U+00C3", "U+201A", "U+00C2", "U+00A2", "U+00C3", "U+0192", "U+00C6", "U+2019", "U+00C3", "U+201A", "U+00C2", "U+00A2", "U+00C3", "U+0192", "U+00C2", "U+00A2", "U+00C3", "U+00A2", "U+00E2", "U+20AC", "U+0161", "U+00C2", "U+00AC", "U+00C3", "U+2026", "U+00C2", "U+00A1", "U+00C3", "U+0192", "U+00E2", "U+20AC", "U+0161", "U+00C3", "U+201A", "U+00C2", "U+00AC", "U+00C3", "U+0192", "U+00C6", "U+2019", "U+00C3", "U+201A", "U+00C2", "U+00A2", "U+00C3", "U+0192", "U+00C2", "U+00A2", "U+00C3", "U+00A2", "U+00E2", "U+20AC", "U+0161", "U+00C2", "U+00AC", "U+00C3", "U+2026", "U+00C2", "U+00BE", "U+00C3", "U+0192", "U+00E2", "U+20AC", "U+0161", "U+00C3", "U+201A", "U+00C2", "U+00A2">>

Replacement259 ==
  <<"'">>

\* page.tsx line 260
Pattern260 ==
  <<"U+00C3", "U+0192", "U+00C6", "U+2019", "U+00C3", "U+2020", "'", "U+00C3", "U+0192", "U+00E2", "U+20AC", "U+0161", "U+00C3", "U+201A", "U+00C2", "U+00A2", "U+00C3", "U+0192", "U+00C6", "U+2019", "U+00C3", "U+201A", "U+00C2", "U+00A2", "U+00C3", "U+0192", "U+00C2", "U+00A2", "U+00C3", "U+00A2", "U+00E2", "U+20AC", "U+0161", "U+00C2", "U+00AC", "U+00C3", "U+2026", "U+00C2", "U+00A1", "U+00C3", "U+0192", "U+00E2", "U+20AC", "U+0161", "U+00C3", "U+201A", "U+00C2", "U+00AC", "U+00C3", "U+0192", "U+00C6", "U+2019", "U+00C3", "U+00A2", "U+00E2", "U+201A", "U+00AC", "U+00C2", "U+00A6", "QUOTE">>

Replacement260 ==
  <<"QUOTE">>

\* page.tsx line 261
Pattern261 ==
  <<"U+00C3", "U+0192", "U+00C6", "U+2019", "U+00C3", "U+2020", "'", "U+00C3", "U+0192", "U+00E2", "U+20AC", "U+0161", "U+00C3", "U+201A", "U+00C2", "U+00A2", "U+00C3", "U+0192", "U+00C6", "U+2019", "U+00C3", "U+201A", "U+00C2", "U+00A2", "U+00C3", "U+0192", "U+00C2", "U+00A2", "U+00C3", "U+00A2", "U+00E2", "U+20AC", "U+0161", "U+00C2", "U+00AC", "U+00C3", "U+2026", "U+00C2", "U+00A1", "U+00C3", "U+0192", "U+00E2", "U+20AC", "U+0161", "U+00C3", "U+201A", "U+00C2", "U+00AC">>

Replacement261 ==
  <<"QUOTE">>

\* page.tsx line 262
Pattern262 ==
  <<"U+00C3", "U+0192", "U+00C6", "U+2019", "U+00C3", "U+2020", "'", "U+00C3", "U+0192", "U+00C2", "U+00A2", "U+00C3", "U+00A2", "U+00E2", "U+20AC", "U+0161", "U+00C2", "U+00AC", "U+00C3", "U+2026", "U+00C2", "U+00A1", "U+00C3", "U+0192", "U+00C6", "U+2019", "U+00C3", "U+00A2", "U+00E2", "U+201A", "U+00AC", "U+00C5", "U+00A1", "U+00C3", "U+0192", "U+00E2", "U+20AC", "U+0161", "U+00C3", "U+201A", "U+00C2", "U+00A9">>

Replacement262 ==
  <<"U+00C3", "U+0192", "U+00C6", "U+2019", "U+00C3", "U+00A2", "U+00E2", "U+201A", "U+00AC", "U+00C5", "U+00A1", "U+00C3", "U+0192", "U+00E2", "U+20AC", "U+0161", "U+00C3", "U+201A", "U+00C2", "U+00A9">>

\* The replacement chain, in the order of the source.
CorrectionTable ==
  << <<Pattern253, Replacement253>>, <<Pattern254, Replacement254>>,
     <<Pattern255, Replacement255>>, <<Pattern256, Replacement256>>,
     <<Pattern257, Replacement257>>, <<Pattern258, Replacement258>>,
     <<Pattern259, Replacement259>>, <<Pattern260, Replacement260>>,
     <<Pattern261, Replacement261>>, <<Pattern262, Replacement262>> >>

RECURSIVE ApplyCorrections(_, _)
ApplyCorrections(s, k) ==
  IF k > Len(CorrectionTable) THEN s
  ELSE ApplyCorrections(
         ReplaceAll(s, CorrectionTable[k][1], CorrectionTable[k][2]), k + 1)

\* decoded, as parseMarkdown computes it before the split.
Normalize(s) == ApplyCorrections(decodeHtmlEntities(s), 1)

\* ------------------------------------------------------------------------
\* Line patterns of the scanner
\* ------------------------------------------------------------------------

\* !line.trim()
IsBlankLine(line) == Trim(line) = <<>>

FenceMarker == <<"BACKTICK", "BACKTICK", "BACKTICK">>

\* line.trim().startsWith(FenceMarker)
IsFenceLine(line) == StartsWith(Trim(line), FenceMarker)

\* line.trim().slice(3).trim()
FenceLanguage(line) == Trim(Drop(Trim(line), 3))

\* The heading pattern without its \s+: /^(#{1,6})(.*)$/.
headingMatch_NoSpace(line) == RunLen(line, {"#"}, 1) >= 1

\* line.match(/^(#{1,6})\s+(.*)$/): the run of '#' is greedy, so the match
\* needs the whole run to be 1..6 long and a whitespace right after it.  No
\* character of a line is a line terminator here (the split took the LF and
\* the textarea turned CR into LF), so (.*)$ takes whatever is left.
headingMatch(line) ==
  LET n == RunLen(line, {"#"}, 1)
  IN  n \in 1..6 /\ n < Len(line) /\ line[n + 1] \in WS

\* The level counted from zero.
HeadingLevel_FromZero(line) == RunLen(line, {"#"}, 1) - 1

\* headingMatch[1].length
HeadingLevel(line) == RunLen(line, {"#"}, 1)

\* headingMatch[2].replace(/\*\*/g, '').trim(): group 2 is what follows the
\* whole whitespace run (it may be empty).
HeadingContent(line) ==
  LET n == RunLen(line, {"#"}, 1)
      w == RunLen(line, WS, n + 1)
  IN  Trim(ReplaceAll(Drop(line, n + w), <<"*", "*">>, <<>>))

\* \s+(.+)$ matched from position k: at least one whitespace and one more
\* character.  \s+ is greedy; when the line ends with the whitespace run the
\* run gives its last character back to (.+).
TailMatches(line, k) == k + 1 <= Len(line) /\ line[k] \in WS

TailContent(line, k) ==
  LET w == RunLen(line, WS, k)
  IN  IF k + w <= Len(line) THEN Drop(line, k + w - 1)
      ELSE <<line[Len(line)]>>

\* line.match(/^[\*\-]\s+(.+)$/)
ulMatch(line) ==
  line # <<>> /\ line[1] \in {"*", "-"} /\ TailMatches(line, 2)

\* line.match(/^\d+\.\s+(.+)$/)
olMatch(line) ==
  LET d == RunLen(line, Digits, 1)
  IN  d >= 1 /\ d + 1 <= Len(line) /\ line[d + 1] = "." /\ TailMatches(line, d + 2)

\* currentLine.match(/^[\*\-]\s+(.+)$/) || currentLine.match(/^\d+\.\s+(.+)$/)
itemMatch(line) == ulMatch(line) \/ olMatch(line)

\* itemMatch[1]
ItemContent(line) ==
  IF ulMatch(line) THEN TailContent(line, 2)
  ELSE TailContent(line, RunLen(line, Digits, 1) + 2)

\* lines[i].match(/^\s{2,}/) && !lines[i].match(/^[\*\-\d]/): both patterns
\* are anchored at the first character of the untrimmed line.
IsContinuation(line) ==
  /\ RunLen(line, WS, 1) >= 2
  /\ ~(line # <<>> /\ line[1] \in ({"*", "-"} \cup Digits))

\* cell && cell !== '---' && !cell.match(/^-+$/)
KeepCell(cell) ==
  /\ cell # <<>>
  /\ cell # <<"-", "-", "-">>
  /\ RunLen(cell, {"-"}, 1) # Len(cell)

\* row.split('|').map(cell => cell.trim()).filter(...)
Cells(row) ==
  LET parts == Split(row, "|")
      trimmed == [k \in 1..Len(parts) |-> Trim(parts[k])]
  IN  SelectSeq(trimmed, KeepCell)

\* ------------------------------------------------------------------------
\* Inline formatting
\* ------------------------------------------------------------------------

\* The replacement strings of the formatting chains around $1.  Each is one
\* element of the formatted sequence: none of them holds a '*', a '_' or a
\* backtick, so to the later patterns of a chain a tag is a run of characters
\* that (.+?) may cross and that no marker matches.
StrongOpen == "<strong class=\"font-semibold text-slate-900 dark:text-slate-50\">"
StrongClose == "</strong>"
EmOpen == "<em>"
EmClose == "</em>"
CodeOpen == "<code class=\"bg-slate-100 dark:bg-slate-800 px-1.5 py-0.5 rounded text-sm font-mono\">"
CodeClose == "</code>"

\* The first position m >= from where the marker stands, or 0.
NextMarker(s, marker, from) ==
  LET ms == {m \in from..Len(s) : MatchAt(s, marker, m)}
  IN  IF ms = {} THEN 0 ELSE CHOOSE m \in ms : \A o \in ms : m <= o

\* The first position k >= from where a match of /M(.+?)M/ starts, or 0: a
\* marker that has, at least one character further, a marker again.
NextOpening(s, marker, from) ==
  LET ks == {k \in from..Len(s) :
               MatchAt(s, marker, k) /\ NextMarker(s, marker, k + Len(marker) + 1) # 0}
  IN  IF ks = {} THEN 0 ELSE CHOOSE k \in ks : \A o \in ks : k <= o

\* The wrapping with the group trimmed.
RECURSIVE WrapFrom_TrimmedGroup(_, _, _, _, _, _)
WrapFrom_TrimmedGroup(s, marker, open, close, from, acc) ==
  LET n == Len(marker)
      k == NextOpening(s, marker, from)
      m == NextMarker(s, marker, k + n + 1)
  IN  IF k = 0 THEN acc \o SubSeq(s, from, Len(s))
      ELSE WrapFrom_TrimmedGroup(s, marker, open, close, m + n,
             acc \o SubSeq(s, from, k - 1)
                 \o <<open>> \o Trim(SubSeq(s, k + n, m - 1)) \o <<close>>)

\* s.replace(/M(.+?)M/g, open + '$1' + close) from position from, M a
\* marker made of literal characters: a match starts at the leftmost marker
\* that has, at least one character further, a marker again; the lazy group
\* ends at the nearest such marker; the search goes on after the closing
\* marker.
RECURSIVE WrapFrom(_, _, _, _, _, _)
WrapFrom(s, marker, open, close, from, acc) ==
  LET n == Len(marker)
      k == NextOpening(s, marker, from)
      m == NextMarker(s, marker, k + n + 1)
  IN  IF k = 0 THEN acc \o SubSeq(s, from, Len(s))
      ELSE WrapFrom(s, marker, open, close, m + n,
             acc \o SubSeq(s, from, k - 1)
                 \o <<open>> \o SubSeq(s, k + n, m - 1) \o <<close>>)

Wrap(s, marker, open, close) == WrapFrom(s, marker, open, close, 1, <<>>)

\* Every "**" deleted, as in the content of a heading.
BoldStars_Deleted(s) == ReplaceAll(s, <<"*", "*">>, <<>>)

\* .replace(/\*\*(.+?)\*\*/g, '<strong class=...>$1</strong>')
BoldStars(s) == Wrap(s, <<"*", "*">>, StrongOpen, StrongClose)

\* .replace(/\*(.+?)\*/g, '<em>$1</em>')
ItalicStar(s) == Wrap(s, <<"*">>, EmOpen, EmClose)

\* .replace(/__(.+?)__/g, '<strong class=...>$1</strong>')
BoldUnderscores(s) == Wrap(s, <<"_", "_">>, StrongOpen, StrongClose)

\* .replace(/_(.+?)_/g, '<em>$1</em>')
ItalicUnderscore(s) == Wrap(s, <<"_">>, EmOpen, EmClose)

\* .replace(/BACKTICK(.+?)BACKTICK/g, '<code class=...>$1</code>')
CodeSpan(s) == Wrap(s, <<"BACKTICK">>, CodeOpen, CodeClose)

\* The chain of a paragraph: the __html of its span.
FormatParagraph(line) ==
  CodeSpan(ItalicUnderscore(BoldUnderscores(ItalicStar(BoldStars(line)))))

\* The chain of a list item: the __html of the span of the li.
FormatItem(item) == CodeSpan(ItalicStar(BoldStars(item)))

\* The chain of a part of a table cell.
FormatPart(part) == ItalicStar(BoldStars(part))

\* The length of a match of /<br\s*\/?>/i at position k of s, or 0.
BrLen(s, k) ==
  IF k + 3 <= Len(s) /\ s[k] = "<" /\ s[k + 1] \in {"b", "B"} /\ s[k + 2] \in {"r", "R"}
  THEN LET w == RunLen(s, WS, k + 3)
           e == k + 3 + w
       IN  IF e <= Len(s) /\ s[e] = ">" THEN e - k + 1
           ELSE IF e + 1 <= Len(s) /\ s[e] = "/" /\ s[e + 1] = ">" THEN e - k + 2
           ELSE 0
  ELSE 0

\* content.split(/<br\s*\/?>/i)
RECURSIVE SplitBrFrom(_, _, _, _)
SplitBrFrom(s, k, cur, acc) ==
  LET ms == {m \in k..Len(s) : BrLen(s, m) > 0}
      m == CHOOSE m \in ms : \A o \in ms : m <= o
  IN  IF ms = {} THEN Append(acc, cur \o SubSeq(s, k, Len(s)))
      ELSE SplitBrFrom(s, m + BrLen(s, m), <<>>, Append(acc, cur \o SubSeq(s, k, m - 1)))

\* renderCellContent: the __html of the span of each part of the cell.
renderCellContent(content) ==
  LET parts == SplitBrFrom(content, 1, <<>>, <<>>)
  IN  [k \in 1..Len(parts) |-> FormatPart(parts[k])]

\* ------------------------------------------------------------------------
\* Inputs
\* ------------------------------------------------------------------------

Empty == <<>>
Spaces == <<" ", " ">>
FenceGo == <<"BACKTICK", "BACKTICK", "BACKTICK", "g", "o">>
FuncMain == <<"f", "u", "n", "c", " ", "m", "a", "i", "n", "(", ")", " ", "{", "}">>
HeadingT == <<"#", " ", "T">>
HashT == <<"#", "T">>
RowAB == <<"|", " ", "A", " ", "|", " ", "B", " ", "|">>
RowSep == <<"|", " ", "-", "-", "-", " ", "|", " ", "-", "-", "-", " ", "|">>
Row12 == <<"|", " ", "1", " ", "|", " ", "2", " ", "|">>
Row1 == <<"|", " ", "1", " ", "|">>
ItemOne == <<"-", " ", "i", "t", "e", "m", " ", "o", "n", "e">>
Continued == <<" ", " ", "c", "o", "n", "t", "i", "n", "u", "e", "d">>
ItemTwo == <<"-", " ", "i", "t", "e", "m", " ", "t", "w", "o">>
Numbered == <<"1", ".", " ", "x">>
Nested == <<" ", " ", "-", " ", "n">>
IndentedFence == <<" ", "BACKTICK", "BACKTICK", "BACKTICK">>
EntityHeading == <<"&", "#", "3", "5", ";", " ", "T">>

\* The lines an input text is made of.
PoolLines ==
  { Empty, Spaces, FenceGo, IndentedFence, FuncMain, HeadingT,
    HashT, EntityHeading, RowAB, RowSep, Row12, Row1,
    ItemOne, Continued, ItemTwo, Numbered, Nested }

\* Lines for the texts about headings: one of each level the page-break
\* rule tells apart, the longest run of '#' that is a heading, and one '#'
\* more.
HeadingTwo == <<"#", "#", " ", "T">>
HeadingThree == <<"#", "#", "#", " ", "T">>
HeadingSix == <<"#", "#", "#", "#", "#", "#", " ", "T">>
HashSeven == <<"#", "#", "#", "#", "#", "#", "#", " ", "T">>

HeadingLines ==
  { Empty, FenceGo, FuncMain, HeadingT, HeadingTwo, HeadingThree,
    HeadingSix, HashSeven, Row1, ItemOne }

\* Pieces for the texts the normaliser is looked at with: the ten patterns
\* of the correction table, a reference to '&' and what makes a second
\* reference of the '&' it leaves, a reference in a heading, and pieces that
\* are nothing the normaliser knows.
AmpReference == <<"&", "a", "m", "p", ";">>
LtName == <<"l", "t", ";">>

NormalizerPieces ==
  {CorrectionTable[k][1] : k \in 1..Len(CorrectionTable)}
    \cup { AmpReference, LtName, EntityHeading, Spaces, FenceGo, FuncMain,
           Row1, ItemOne }

\* The pieces one after the other.
RECURSIVE Concat(_)
Concat(ps) == IF ps = <<>> THEN <<>> ELSE Head(ps) \o Concat(Tail(ps))

\* Texts with inline markers: every string of the three marker characters,
\* a letter and a blank, put where each kind of block takes its text from.
InlineChars == {"a", "*", "_", "BACKTICK", " "}

InlineContexts == {"paragraph", "item", "heading", "headerCell", "bodyCell"}

\* The lines that put s in the given place.
InContext(c, s) ==
  CASE c = "paragraph" -> <<s>>
    [] c = "item" -> << <<"-", " ">> \o s >>
    [] c = "heading" -> << <<"#", " ">> \o s >>
    [] c = "headerCell" -> << <<"|", " ">> \o s \o <<" ", "|">> >>
    [] c = "bodyCell" -> << Row1, <<"|", " ">> \o s \o <<" ", "|">> >>

\* A value passed to parseMarkdown: a string, or a value of another type
\* (truthy says what !text makes of it, chars is what the DOM would turn it
\* into).
StringInput(s) == [isString |-> TRUE, truthy |-> s # <<>>, chars |-> s]

NonStringInputs ==
  { [isString |-> FALSE, truthy |-> FALSE, chars |-> <<>>],
    [isString |-> FALSE, truthy |-> TRUE, chars |-> <<"5">>] }

\* The text made of the given lines.
TextOf(ls) == StringInput(Join(ls, "LF"))

\* The arguments of the calls made one after the other: texts that use both
\* counters, the cursor and each kind of block, and the empty string.
CallTexts ==
  { TextOf(<<HeadingT, HeadingT>>), TextOf(<<HeadingTwo, Empty, HeadingTwo>>),
    TextOf(<<HeadingT, HeadingTwo>>), TextOf(<<FenceGo, FuncMain>>),
    TextOf(<<RowAB, Row1>>), TextOf(<<ItemOne, Numbered>>),
    TextOf(<<FuncMain>>), StringInput(<<>>) }

\* ------------------------------------------------------------------------
\* State
\* ------------------------------------------------------------------------

VARIABLES
  pc,        \* "idle": not called yet; "scan": in the while loop;
             \* "done": returned; "threw": a TypeError left the function
  text,      \* the argument of parseMarkdown
  lines,     \* decoded.split('\n')
  elements,  \* the blocks pushed so far
  i,         \* the line cursor
  h1Count,
  h2Count,
  iterations, \* how many times the body of the while loop was entered
  returned   \* the calls that returned before this one: argument and result

\* The state of the component GistApp, and what it has started that has not
\* come back yet.
VARIABLES
  url,
  isLoading,
  notes,
  error,
  selectedMode,
  isDropdownOpen,
  rateLimitInfo,
  isRateLimited,
  feedback,
  feedbackSubmitting,
  feedbackSuccess,
  generateCalls,  \* the bodies of the POST /api/generate not answered yet
  rateLimitCalls, \* how many GET /api/rate-limit-info are not answered yet
  feedbackCalls,  \* the bodies of the POST /api/feedback not answered yet
  timers,         \* how many setTimeout callbacks of each kind are pending
  attempts,       \* how many generation requests were sent
  settled,        \* what the last answered generation request came back with
  limited         \* a 429 has set isRateLimited

parserVars == <<pc, text, lines, elements, i, h1Count, h2Count, iterations, returned>>

pageVars ==
  <<url, isLoading, notes, error, selectedMode, isDropdownOpen, rateLimitInfo,
    isRateLimited, feedback, feedbackSubmitting, feedbackSuccess,
    generateCalls, rateLimitCalls, feedbackCalls, timers, attempts, settled,
    limited>>

vars == <<parserVars, pageVars>>

\* What lines[j] evaluates to outside the array.
Undefined == <<"undefined">>

\* i < lines.length
HasLine(j) == j < Len(lines)

\* lines[j]
LineAt(j) == IF j >= 0 /\ j + 1 <= Len(lines) THEN lines[j + 1] ELSE Undefined

\* An element of the result.  from and to are the cursor before and after
\* the iteration that pushed the block; the other fields are the values the
\* JSX of the block is built from.  The content of a heading and the cells
\* of headerRow are rendered as text children; the content of a paragraph,
\* itemsHtml and bodyHtml are the strings given to dangerouslySetInnerHTML.
NoBlock ==
  [kind |-> "none", from |-> 0, to |-> 0,
   language |-> <<>>, codeLines |-> <<>>,
   level |-> 0, breakClass |-> FALSE, content |-> <<>>,
   headerRow |-> <<>>, bodyRows |-> <<>>, bodyHtml |-> <<>>,
   isOrdered |-> FALSE, listItems |-> <<>>, itemsHtml |-> <<>>]

\* null or undefined: a value that is falsy and has no properties.
Null == [type |-> "null"]

\* The feedback state of useState, and of the reset after a submission.
NoFeedback == [isOpen |-> FALSE, rating |-> 0, comment |-> "", email |-> ""]

\* The component after its first render and its mount effect: every
\* useState holds its initial value and fetchRateLimitInfo() waits for the
\* answer to its request.
Mounted ==
  /\ url = <<>>
  /\ isLoading = FALSE
  /\ notes = ""
  /\ error = ""
  /\ selectedMode = "cornell"
  /\ isDropdownOpen = FALSE
  /\ rateLimitInfo = Null
  /\ isRateLimited = FALSE
  /\ feedback = NoFeedback
  /\ feedbackSubmitting = FALSE
  /\ feedbackSuccess = FALSE
  /\ generateCalls = <<>>
  /\ rateLimitCalls = 1
  /\ feedbackCalls = <<>>
  /\ timers = [open |-> 0, reset |-> 0]
  /\ attempts = 0
  /\ settled = [kind |-> "none"]
  /\ limited = FALSE

\* The early return without the typeof test.
EarlyReturn_NoTypeTest(t) == ~t.truthy

\* !text || typeof text !== 'string'
EarlyReturn(t) == ~t.truthy \/ ~t.isString

Init ==
  /\ pc = "idle"
  /\ \/ \E n \in 1..MaxLines : \E ls \in [1..n -> PoolLines] : text = TextOf(ls)
     \/ text \in NonStringInputs
  /\ lines = <<>>
  /\ elements = <<>>
  /\ i = 0
  /\ h1Count = 0
  /\ h2Count = 0
  /\ iterations = 0
  /\ returned = <<>>
  /\ Mounted

\* The call that goes on with the counters where the call before left them.
Call_CountersKept ==
  /\ pc = "idle"
  /\ IF EarlyReturn(text)
     THEN /\ pc' = "done"
          /\ lines' = <<>>
     ELSE /\ pc' = "scan"
          /\ lines' = Split(Normalize(text.chars), "LF")
  /\ elements' = <<>>
  /\ i' = 0
  /\ iterations' = 0
  /\ UNCHANGED <<pageVars, returned, text, h1Count, h2Count>>

\* parseMarkdown up to the while loop: the early return, the normaliser, the
\* split and the fresh cursor, result and counters.
Call ==
  /\ pc = "idle"
  /\ IF EarlyReturn(text)
     THEN /\ pc' = "done"
          /\ lines' = <<>>
     ELSE /\ pc' = "scan"
          /\ lines' = Split(Normalize(text.chars), "LF")
  /\ elements' = <<>>
  /\ i' = 0
  /\ h1Count' = 0
  /\ h2Count' = 0
  /\ iterations' = 0
  /\ UNCHANGED <<pageVars, returned, text>>

\* while (i < lines.length) fails: return elements.
Return ==
  /\ pc = "scan"
  /\ ~HasLine(i)
  /\ pc' = "done"
  /\ UNCHANGED <<pageVars, returned, text, lines, elements, i, h1Count, h2Count, iterations>>

\* The blank branch without its i++.
ScanBlank_NoAdvance ==
  /\ pc = "scan"
  /\ HasLine(i)
  /\ IsBlankLine(LineAt(i))
  /\ iterations' = iterations + 1
  /\ UNCHANGED <<pageVars, pc, returned, text, lines, elements, i, h1Count, h2Count>>

\* A blank line: i++; continue.  line.trim() is the first use of lines[i]
\* in the loop body, so it is where an undefined line would throw.
ScanBlank ==
  /\ pc = "scan"
  /\ HasLine(i)
  /\ IF LineAt(i) = Undefined
     THEN pc' = "threw" /\ UNCHANGED i
     ELSE IsBlankLine(LineAt(i)) /\ i' = i + 1 /\ UNCHANGED pc
  /\ iterations' = iterations + 1
  /\ UNCHANGED <<pageVars, returned, text, lines, elements, h1Count, h2Count>>

\* The line at the cursor is one the loop body goes on with.
AtContent ==
  /\ pc = "scan"
  /\ HasLine(i)
  /\ LineAt(i) # Undefined
  /\ ~IsBlankLine(LineAt(i))

\* The inner loop of the code branch with the closing fence looked for on
\* the untrimmed line.
RECURSIVE CodeLoop_NoTrim(_, _)
CodeLoop_NoTrim(j, acc) ==
  IF ~(j < Len(lines)) THEN [i |-> j, codeLines |-> acc, threw |-> FALSE]
  ELSE IF StartsWith(lines[j + 1], FenceMarker)
       THEN [i |-> j, codeLines |-> acc, threw |-> FALSE]
       ELSE CodeLoop_NoTrim(j + 1, Append(acc, lines[j + 1]))

\* while (i < lines.length && !lines[i].trim().startsWith(FenceMarker)) of the
\* code branch, from cursor j with the lines collected so far.
RECURSIVE CodeLoop(_, _)
CodeLoop(j, acc) ==
  IF ~HasLine(j) THEN [i |-> j, codeLines |-> acc, threw |-> FALSE]
  ELSE IF LineAt(j) = Undefined THEN [i |-> j, codeLines |-> acc, threw |-> TRUE]
  ELSE IF IsFenceLine(LineAt(j)) THEN [i |-> j, codeLines |-> acc, threw |-> FALSE]
  ELSE CodeLoop(j + 1, Append(acc, LineAt(j)))

\* The code branch without the i++ that skips the closing fence.
ScanCode_NoSkip ==
  /\ AtContent
  /\ IsFenceLine(LineAt(i))
  /\ LET r == CodeLoop(i + 1, <<>>)
     IN  IF r.threw
         THEN pc' = "threw" /\ i' = r.i /\ UNCHANGED elements
         ELSE /\ i' = r.i
              /\ elements' = Append(elements,
                   [NoBlock EXCEPT !.kind = "code", !.from = i, !.to = r.i,
                                   !.language = FenceLanguage(LineAt(i)),
                                   !.codeLines = r.codeLines])
              /\ UNCHANGED pc
  /\ iterations' = iterations + 1
  /\ UNCHANGED <<pageVars, returned, text, lines, h1Count, h2Count>>

\* The code branch: the fence line, the lines up to the closing fence or
\* the end of the input, i++ for the closing fence, one block.
ScanCode ==
  /\ AtContent
  /\ IsFenceLine(LineAt(i))
  /\ LET r == CodeLoop(i + 1, <<>>)
     IN  IF r.threw
         THEN pc' = "threw" /\ i' = r.i /\ UNCHANGED elements
         ELSE /\ i' = r.i + 1
              /\ elements' = Append(elements,
                   [NoBlock EXCEPT !.kind = "code", !.from = i, !.to = r.i + 1,
                                   !.language = FenceLanguage(LineAt(i)),
                                   !.codeLines = r.codeLines])
              /\ UNCHANGED pc
  /\ iterations' = iterations + 1
  /\ UNCHANGED <<pageVars, returned, text, lines, h1Count, h2Count>>

\* The heading branch with one counter for both levels.
ScanHeading_OneCounter ==
  /\ AtContent
  /\ ~IsFenceLine(LineAt(i))
  /\ headingMatch(LineAt(i))
  /\ LET level == HeadingLevel(LineAt(i))
         h1 == IF level \in {1, 2} THEN h1Count + 1 ELSE h1Count
         h2 == IF level \in {1, 2} THEN h2Count + 1 ELSE h2Count
     IN  /\ h1Count' = h1
         /\ h2Count' = h2
         /\ elements' = Append(elements,
              [NoBlock EXCEPT !.kind = "heading", !.from = i, !.to = i + 1,
                              !.level = level,
                              !.breakClass = (level = 1 /\ h1 > 1) \/ (level = 2 /\ h2 > 1),
                              !.content = HeadingContent(LineAt(i))])
  /\ i' = i + 1
  /\ iterations' = iterations + 1
  /\ UNCHANGED <<pageVars, pc, returned, text, lines>>

\* The heading branch.
ScanHeading ==
  /\ AtContent
  /\ ~IsFenceLine(LineAt(i))
  /\ headingMatch(LineAt(i))
  /\ LET level == HeadingLevel(LineAt(i))
         h1 == IF level = 1 THEN h1Count + 1 ELSE h1Count
         h2 == IF level = 2 THEN h2Count + 1 ELSE h2Count
     IN  /\ h1Count' = h1
         /\ h2Count' = h2
         /\ elements' = Append(elements,
              [NoBlock EXCEPT !.kind = "heading", !.from = i, !.to = i + 1,
                              !.level = level,
                              !.breakClass = (level = 1 /\ h1 > 1) \/ (level = 2 /\ h2 > 1),
                              !.content = HeadingContent(LineAt(i))])
  /\ i' = i + 1
  /\ iterations' = iterations + 1
  /\ UNCHANGED <<pageVars, pc, returned, text, lines>>

\* while (i < lines.length && lines[i].trim().startsWith('|')) of the table
\* branch.
RECURSIVE TableLoop(_, _)
TableLoop(j, acc) ==
  IF ~HasLine(j) THEN [i |-> j, tableLines |-> acc, threw |-> FALSE]
  ELSE IF LineAt(j) = Undefined THEN [i |-> j, tableLines |-> acc, threw |-> TRUE]
  ELSE IF StartsWith(Trim(LineAt(j)), <<"|">>)
       THEN TableLoop(j + 1, Append(acc, LineAt(j)))
       ELSE [i |-> j, tableLines |-> acc, threw |-> FALSE]

\* rows with the rows that keep no cell filtered out.
TableRows_DropEmptyRows(tableLines) ==
  LET cells == [k \in 1..Len(tableLines) |-> Cells(tableLines[k])]
  IN  SelectSeq(cells, LAMBDA row : row # <<>>)

\* rows with every row padded with empty cells to the length of the first.
TableRows_Padded(tableLines) ==
  LET cells == [k \in 1..Len(tableLines) |-> Cells(tableLines[k])]
      width == Len(cells[1])
  IN  [k \in 1..Len(cells) |->
         [c \in 1..(IF Len(cells[k]) > width THEN Len(cells[k]) ELSE width) |->
            IF c <= Len(cells[k]) THEN cells[k][c] ELSE <<>>]]

\* tableLines.filter(row => row.trim()).map(row => row.split('|')...)
TableRows(tableLines) ==
  LET kept == SelectSeq(tableLines, LAMBDA row : Trim(row) # <<>>)
  IN  [k \in 1..Len(kept) |-> Cells(kept[k])]

\* The table branch pushing a block only when the first row kept a cell.
ScanTable_HeaderNeeded ==
  /\ AtContent
  /\ ~IsFenceLine(LineAt(i))
  /\ ~headingMatch(LineAt(i))
  /\ StartsWith(Trim(LineAt(i)), <<"|">>)
  /\ LET r == TableLoop(i, <<>>)
         rows == TableRows(r.tableLines)
     IN  IF r.threw
         THEN pc' = "threw" /\ i' = r.i /\ UNCHANGED elements
         ELSE /\ i' = r.i
              /\ elements' =
                   IF Len(rows) > 0 /\ Head(rows) # <<>>
                   THEN Append(elements,
                          [NoBlock EXCEPT !.kind = "table", !.from = i, !.to = r.i,
                                          !.headerRow = Head(rows),
                                          !.bodyRows = Tail(rows),
                                          !.bodyHtml =
                                            [r1 \in 1..(Len(rows) - 1) |->
                                               [c \in 1..Len(rows[r1 + 1]) |->
                                                  renderCellContent(rows[r1 + 1][c])]]])
                   ELSE elements
              /\ UNCHANGED pc
  /\ iterations' = iterations + 1
  /\ UNCHANGED <<pageVars, returned, text, lines, h1Count, h2Count>>

\* The table branch: the run of lines that start with '|', then one block
\* when rows is not empty: [headerRow, ...bodyRows] = rows.
ScanTable ==
  /\ AtContent
  /\ ~IsFenceLine(LineAt(i))
  /\ ~headingMatch(LineAt(i))
  /\ StartsWith(Trim(LineAt(i)), <<"|">>)
  /\ LET r == TableLoop(i, <<>>)
         rows == TableRows(r.tableLines)
     IN  IF r.threw
         THEN pc' = "threw" /\ i' = r.i /\ UNCHANGED elements
         ELSE /\ i' = r.i
              /\ elements' =
                   IF Len(rows) > 0
                   THEN Append(elements,
                          [NoBlock EXCEPT !.kind = "table", !.from = i, !.to = r.i,
                                          !.headerRow = Head(rows),
                                          !.bodyRows = Tail(rows),
                                          !.bodyHtml =
                                            [r1 \in 1..(Len(rows) - 1) |->
                                               [c \in 1..Len(rows[r1 + 1]) |->
                                                  renderCellContent(rows[r1 + 1][c])]]])
                   ELSE elements
              /\ UNCHANGED pc
  /\ iterations' = iterations + 1
  /\ UNCHANGED <<pageVars, returned, text, lines, h1Count, h2Count>>

\* The inner while of the list branch: the continuation lines of one item,
\* each pushed trimmed on subLines.
RECURSIVE ContinuationLoop(_, _)
ContinuationLoop(j, subLines) ==
  IF ~HasLine(j) THEN [i |-> j, subLines |-> subLines, threw |-> FALSE]
  ELSE IF LineAt(j) = Undefined THEN [i |-> j, subLines |-> subLines, threw |-> TRUE]
  ELSE IF IsContinuation(LineAt(j))
       THEN ContinuationLoop(j + 1, Append(subLines, Trim(LineAt(j))))
       ELSE [i |-> j, subLines |-> subLines, threw |-> FALSE]

\* The outer loop of the list branch stopping at an item whose marker is
\* not of the kind of the first line of the list (the line at the cursor).
RECURSIVE ListLoop_SameKindOnly(_, _)
ListLoop_SameKindOnly(j, listItems) ==
  IF ~(j < Len(lines)) THEN [i |-> j, listItems |-> listItems, threw |-> FALSE]
  ELSE IF ~itemMatch(lines[j + 1]) \/ olMatch(lines[j + 1]) # olMatch(lines[i + 1])
       THEN [i |-> j, listItems |-> listItems, threw |-> FALSE]
  ELSE LET c == ContinuationLoop(j + 1, <<ItemContent(lines[j + 1])>>)
       IN  ListLoop_SameKindOnly(c.i, Append(listItems, Join(c.subLines, " ")))

\* The outer while of the list branch: one item per round, until a line
\* that is no item or the end of the input.
RECURSIVE ListLoop(_, _)
ListLoop(j, listItems) ==
  IF ~HasLine(j) THEN [i |-> j, listItems |-> listItems, threw |-> FALSE]
  ELSE IF LineAt(j) = Undefined THEN [i |-> j, listItems |-> listItems, threw |-> TRUE]
  ELSE IF ~itemMatch(LineAt(j)) THEN [i |-> j, listItems |-> listItems, threw |-> FALSE]
  ELSE LET c == ContinuationLoop(j + 1, <<ItemContent(LineAt(j))>>)
       IN  IF c.threw THEN [i |-> c.i, listItems |-> listItems, threw |-> TRUE]
           ELSE ListLoop(c.i, Append(listItems, Join(c.subLines, " ")))

\* The list branch: isOrdered from the first line, the items, one block.
ScanList ==
  /\ AtContent
  /\ ~IsFenceLine(LineAt(i))
  /\ ~headingMatch(LineAt(i))
  /\ ~StartsWith(Trim(LineAt(i)), <<"|">>)
  /\ ulMatch(LineAt(i)) \/ olMatch(LineAt(i))
  /\ LET r == ListLoop(i, <<>>)
     IN  IF r.threw
         THEN pc' = "threw" /\ i' = r.i /\ UNCHANGED elements
         ELSE /\ i' = r.i
              /\ elements' = Append(elements,
                   [NoBlock EXCEPT !.kind = "list", !.from = i, !.to = r.i,
                                   !.isOrdered = olMatch(LineAt(i)),
                                   !.listItems = r.listItems,
                                   !.itemsHtml =
                                     [k \in 1..Len(r.listItems) |->
                                        FormatItem(r.listItems[k])]])
              /\ UNCHANGED pc
  /\ iterations' = iterations + 1
  /\ UNCHANGED <<pageVars, returned, text, lines, h1Count, h2Count>>

\* The paragraph: the formatted line, one block, i++.
ScanParagraph ==
  /\ AtContent
  /\ ~IsFenceLine(LineAt(i))
  /\ ~headingMatch(LineAt(i))
  /\ ~StartsWith(Trim(LineAt(i)), <<"|">>)
  /\ ~(ulMatch(LineAt(i)) \/ olMatch(LineAt(i)))
  /\ elements' = Append(elements,
       [NoBlock EXCEPT !.kind = "p", !.from = i, !.to = i + 1,
                       !.content = FormatParagraph(LineAt(i))])
  /\ i' = i + 1
  /\ iterations' = iterations + 1
  /\ UNCHANGED <<pageVars, pc, returned, text, lines, h1Count, h2Count>>

Next ==
  \/ Call
  \/ Return
  \/ ScanBlank
  \/ ScanCode
  \/ ScanHeading
  \/ ScanTable
  \/ ScanList
  \/ ScanParagraph

Spec == Init /\ [][Next]_vars

\* The component renders again and calls parseMarkdown(notes) again, with
\* the notes it has then.  What the call before returned is kept in
\* returned; the locals of that call are what they were when it returned
\* until the new call makes its own.
Rerender ==
  /\ pc = "done"
  /\ Len(returned) + 1 < MaxCalls
  /\ pc' = "idle"
  /\ text' \in CallTexts
  /\ returned' = Append(returned, [text |-> text, elements |-> elements])
  /\ UNCHANGED <<pageVars, lines, elements, i, h1Count, h2Count, iterations>>

NextCalls ==
  \/ Next
  \/ Rerender

\* Calls of parseMarkdown one after the other.
InitCalls ==
  /\ pc = "idle"
  /\ text \in CallTexts
  /\ lines = <<>>
  /\ elements = <<>>
  /\ i = 0
  /\ h1Count = 0
  /\ h2Count = 0
  /\ iterations = 0
  /\ returned = <<>>
  /\ Mounted

SpecCalls == InitCalls /\ [][NextCalls]_vars

\* One call of parseMarkdown on a text about headings.
InitHeadings ==
  /\ pc = "idle"
  /\ \E n \in 1..MaxHeadingLines : \E ls \in [1..n -> HeadingLines] : text = TextOf(ls)
  /\ lines = <<>>
  /\ elements = <<>>
  /\ i = 0
  /\ h1Count = 0
  /\ h2Count = 0
  /\ iterations = 0
  /\ returned = <<>>
  /\ Mounted

SpecHeadings == InitHeadings /\ [][Next]_vars

\* One call of parseMarkdown on a text made of pieces for the normaliser.
InitNormalize ==
  /\ pc = "idle"
  /\ \E n \in 1..MaxPieces : \E ps \in [1..n -> NormalizerPieces] :
        text = StringInput(Concat(ps))
  /\ lines = <<>>
  /\ elements = <<>>
  /\ i = 0
  /\ h1Count = 0
  /\ h2Count = 0
  /\ iterations = 0
  /\ returned = <<>>
  /\ Mounted

SpecNormalize == InitNormalize /\ [][Next]_vars

\* One call of parseMarkdown on a text with inline markers.
InitFormat ==
  /\ pc = "idle"
  /\ \E n \in 0..MaxInline : \E s \in [1..n -> InlineChars] :
        \E c \in InlineContexts : text = TextOf(InContext(c, s))
  /\ lines = <<>>
  /\ elements = <<>>
  /\ i = 0
  /\ h1Count = 0
  /\ h2Count = 0
  /\ iterations = 0
  /\ returned = <<>>
  /\ Mounted

SpecFormat == InitFormat /\ [][Next]_vars

\* ------------------------------------------------------------------------
\* The component: its handlers, the user and the server
\* ------------------------------------------------------------------------

\* How many generation requests a session sends.
MaxAttempts == 2

\* The largest rate_limit.remaining the server answers with.
MaxRemaining == 1

\* MODE_OPTIONS.map(mode => mode.value), the values of NoteMode
Modes == {"cornell", "dev", "summary"}

\* What the user types into the url input: blanks only, and a url with
\* blanks around it.
Urls == {<<" ">>, <<" ", "u", " ">>}

\* What the user types into the comment textarea and the email input.
Comments == {"", "clear notes"}
Emails == {"", "a@b.c"}

\* Star buttons that go one too far.
Stars_ToSix == 1..6

\* [1, 2, 3, 4, 5].map((star) => ...)
Stars == 1..5

\* A property that a JSON body does not have.
Missing == [type |-> "undefined"]

\* A JSON string.
Str(s) == [type |-> "string", value |-> s]

\* A JSON object, of which only the message is read.
Obj(m) == [type |-> "object", message |-> m]

\* The shapes of data.detail.
Details == {Missing, Str(""), Str("d"), Obj(Missing), Obj(Str("")), Obj(Str("m"))}

\* The shapes of data.markdown.
Markdowns == {Missing, Str(""), Str("# a")}

\* rate_limit: { remaining: n, ... }
RateLimit(n) == [type |-> "object", remaining |-> n]

\* The shapes of data.rate_limit: absent, or a RateLimitInfo.
RateLimits == {Null} \cup {RateLimit(n) : n \in 0..MaxRemaining}

\* A JSON body, of which detail, markdown and rate_limit are read.
Body(d, m, r) == [type |-> "object", detail |-> d, markdown |-> m, rate_limit |-> r]

\* What await fetch(...) and await response.json() end with: the fetch
\* rejects, the body is not JSON, or there is a status and a JSON body.
GenerateResponses ==
  {[kind |-> "rejected"], [kind |-> "malformed"]}
    \cup {[kind |-> "json", status |-> st, data |-> Null] : st \in {200, 400, 429, 500}}
    \cup {[kind |-> "json", status |-> st, data |-> Body(d, Missing, Null)] :
            st \in {400, 429, 500}, d \in Details}
    \cup {[kind |-> "json", status |-> 200, data |-> Body(Missing, m, r)] :
            m \in Markdowns, r \in RateLimits}

\* response.ok
Ok(r) == r.status \in 200..299

\* data.detail?.message
DetailMessage(d) == IF d.type = "object" THEN d.message ELSE Missing

\* v || s, for a v that is undefined or a string: the empty string is falsy.
OrElse(v, s) == IF v.type = "string" /\ v.value # "" THEN v.value ELSE s

\* The argument of setError in the three branches of !response.ok.
ErrorOf(status, d) ==
  IF status = 429 THEN OrElse(DetailMessage(d), "Rate limit exceeded")
  ELSE IF status = 400
       THEN IF d.type = "string" THEN d.value
            ELSE OrElse(DetailMessage(d), "Invalid request")
       ELSE IF d.type = "string" THEN d.value ELSE "Failed to generate notes"

\* err.message in the catch block: the TypeError of a rejected fetch, the
\* SyntaxError of response.json(), the TypeError of a property read on null.
Thrown(r) ==
  IF r.kind = "rejected" THEN "Failed to fetch"
  ELSE IF r.kind = "malformed" THEN "Unexpected token"
  ELSE "Cannot read properties of null"

\* Which way the code after the two awaits goes for the response r.
Outcome(r) ==
  IF r.kind # "json" THEN [kind |-> r.kind]
  ELSE IF ~Ok(r) THEN [kind |-> "status"]
  ELSE IF r.data = Null THEN [kind |-> "null"]
  ELSE IF r.data.markdown.type # "string" THEN [kind |-> "format"]
  ELSE [kind |-> "markdown"]

\* The sequence s without its k-th element.
Remove(s, k) == SubSeq(s, 1, k - 1) \o SubSeq(s, k + 1, Len(s))

\* {!notes ? (the landing page) : (the notes)}
LandingShown == notes = ""

\* {feedback.isOpen && (... feedbackSuccess ? (thanks) : (the form))}
FormShown == feedback.isOpen /\ ~feedbackSuccess

\* The test of rateLimitInfo without the one of remaining.
NoneRemaining_NullOnly == rateLimitInfo = Null

\* !rateLimitInfo || rateLimitInfo.remaining <= 0
NoneRemaining == rateLimitInfo = Null \/ rateLimitInfo.remaining <= 0

\* The answer to fetchRateLimitInfo's request comes: the catch block only
\* logs, otherwise both states are set from the body.
RateLimitSettles ==
  /\ rateLimitCalls > 0
  /\ rateLimitCalls' = rateLimitCalls - 1
  /\ \/ UNCHANGED <<rateLimitInfo, isRateLimited>>
     \/ \E r \in RateLimits : \E l \in BOOLEAN :
          /\ rateLimitInfo' = r
          /\ isRateLimited' = l
  /\ UNCHANGED <<url, isLoading, notes, error, selectedMode, isDropdownOpen,
                 feedback, feedbackSubmitting, feedbackSuccess, generateCalls,
                 feedbackCalls, timers, attempts, settled, limited>>
  /\ UNCHANGED parserVars

\* onChange={(e) => setUrl(e.target.value)} of the url input, which is on
\* the landing page and disabled while isLoading.
SetUrl ==
  /\ LandingShown
  /\ ~isLoading
  /\ url' \in Urls
  /\ UNCHANGED <<isLoading, notes, error, selectedMode, isDropdownOpen,
                 rateLimitInfo, isRateLimited, feedback, feedbackSubmitting,
                 feedbackSuccess, generateCalls, rateLimitCalls, feedbackCalls,
                 timers, attempts, settled, limited>>
  /\ UNCHANGED parserVars

\* onClick={() => setIsDropdownOpen(!isDropdownOpen)} of the mode button,
\* disabled while isLoading.
ToggleDropdown ==
  /\ LandingShown
  /\ ~isLoading
  /\ isDropdownOpen' = ~isDropdownOpen
  /\ UNCHANGED <<url, isLoading, notes, error, selectedMode,
                 rateLimitInfo, isRateLimited, feedback, feedbackSubmitting,
                 feedbackSuccess, generateCalls, rateLimitCalls, feedbackCalls,
                 timers, attempts, settled, limited>>
  /\ UNCHANGED parserVars

\* A click on a mode of the open dropdown.
SelectMode ==
  /\ LandingShown
  /\ isDropdownOpen
  /\ selectedMode' \in Modes
  /\ isDropdownOpen' = FALSE
  /\ UNCHANGED <<url, isLoading, notes, error,
                 rateLimitInfo, isRateLimited, feedback, feedbackSubmitting,
                 feedbackSuccess, generateCalls, rateLimitCalls, feedbackCalls,
                 timers, attempts, settled, limited>>
  /\ UNCHANGED parserVars

\* handleGenerate up to its first await: the three early returns, then the
\* four setters and the fetch.
handleGenerate ==
  /\ IF Trim(url) = <<>>
     THEN UNCHANGED <<isLoading, notes, error, feedbackSuccess, generateCalls,
                      attempts, settled>>
     ELSE IF isRateLimited
     THEN /\ error' = "Free trial limit reached. Please try again after 24 hours or upgrade to paid plan."
          /\ UNCHANGED <<isLoading, notes, feedbackSuccess, generateCalls,
                         attempts, settled>>
     ELSE IF NoneRemaining
     THEN /\ error' = "No free requests remaining. Please upgrade to continue."
          /\ UNCHANGED <<isLoading, notes, feedbackSuccess, generateCalls,
                         attempts, settled>>
     ELSE /\ attempts < MaxAttempts
          /\ isLoading' = TRUE
          /\ error' = ""
          /\ notes' = ""
          /\ feedbackSuccess' = FALSE
          /\ generateCalls' =
               Append(generateCalls, [url |-> Trim(url), mode |-> selectedMode])
          /\ attempts' = attempts + 1
          /\ settled' = [kind |-> "none"]
  /\ UNCHANGED <<url, selectedMode, isDropdownOpen, rateLimitInfo,
                 isRateLimited, feedback, feedbackSubmitting, rateLimitCalls,
                 feedbackCalls, timers, limited>>
  /\ UNCHANGED parserVars

\* The generate button without isLoading in its disabled attribute.
ClickGenerate_WhileLoading ==
  /\ LandingShown
  /\ ~(Trim(url) = <<>>)
  /\ handleGenerate

\* onClick={handleGenerate} of the generate button, which has
\* disabled={!url.trim() || isLoading}.
ClickGenerate ==
  /\ LandingShown
  /\ ~(Trim(url) = <<>> \/ isLoading)
  /\ handleGenerate

\* onKeyDown of the url input, itself disabled while isLoading:
\* e.key === 'Enter' && !isLoading && handleGenerate()
PressEnter ==
  /\ LandingShown /\ ~isLoading
  /\ ~isLoading
  /\ handleGenerate

\* handleGenerate without its finally block.
Finally_LeftOut == UNCHANGED isLoading

\* finally { setIsLoading(false); }
Finally == isLoading' = FALSE

\* handleGenerate after its two awaits: the branches of !response.ok, the
\* test of data.markdown, the refresh of the rate limit and the timeout
\* that opens the feedback modal, the catch block and the finally block.
GenerateSettles ==
  \E k \in 1..Len(generateCalls) : \E r \in GenerateResponses :
    /\ generateCalls' = Remove(generateCalls, k)
    /\ settled' = Outcome(r)
    /\ IF r.kind # "json"
       THEN /\ error' = Thrown(r)
            /\ UNCHANGED <<notes, rateLimitInfo, isRateLimited, rateLimitCalls,
                           timers, limited>>
       ELSE IF ~Ok(r)
       THEN /\ isRateLimited' = IF r.status = 429 THEN TRUE ELSE isRateLimited
            /\ limited' = (limited \/ r.status = 429)
            /\ error' = IF r.data = Null THEN Thrown(r)
                        ELSE ErrorOf(r.status, r.data.detail)
            /\ UNCHANGED <<notes, rateLimitInfo, rateLimitCalls, timers>>
       ELSE IF r.data = Null
       THEN /\ error' = Thrown(r)
            /\ UNCHANGED <<notes, rateLimitInfo, isRateLimited, rateLimitCalls,
                           timers, limited>>
       ELSE IF r.data.markdown.type # "string"
       THEN /\ error' = "Invalid response format from server"
            /\ UNCHANGED <<notes, rateLimitInfo, isRateLimited, rateLimitCalls,
                           timers, limited>>
       ELSE /\ notes' = r.data.markdown.value
            /\ IF r.data.rate_limit # Null
               THEN rateLimitInfo' = r.data.rate_limit /\ isRateLimited' = FALSE
               ELSE UNCHANGED <<rateLimitInfo, isRateLimited>>
            /\ rateLimitCalls' = rateLimitCalls + 1
            /\ timers' = [timers EXCEPT !.open = @ + 1]
            /\ UNCHANGED <<error, limited>>
    /\ Finally
    /\ UNCHANGED <<url, selectedMode, isDropdownOpen, feedback,
                   feedbackSubmitting, feedbackSuccess, feedbackCalls, attempts>>
    /\ UNCHANGED parserVars

\* The New Note button above the notes.
NewNote ==
  /\ ~LandingShown
  /\ notes' = ""
  /\ url' = <<>>
  /\ error' = ""
  /\ UNCHANGED <<isLoading, selectedMode, isDropdownOpen, rateLimitInfo,
                 isRateLimited, feedback, feedbackSubmitting, feedbackSuccess,
                 generateCalls, rateLimitCalls, feedbackCalls, timers, attempts,
                 settled, limited>>
  /\ UNCHANGED parserVars

\* setTimeout(() => setFeedback(prev => ({ ...prev, isOpen: true })), 2000)
OpenFeedback ==
  /\ timers.open > 0
  /\ timers' = [timers EXCEPT !.open = @ - 1]
  /\ feedback' = [feedback EXCEPT !.isOpen = TRUE]
  /\ UNCHANGED <<url, isLoading, notes, error, selectedMode, isDropdownOpen,
                 rateLimitInfo, isRateLimited, feedbackSubmitting,
                 feedbackSuccess, generateCalls, rateLimitCalls, feedbackCalls,
                 attempts, settled, limited>>
  /\ UNCHANGED parserVars

\* The X button of the feedback form.
CloseFeedback ==
  /\ FormShown
  /\ feedback' = [feedback EXCEPT !.isOpen = FALSE]
  /\ UNCHANGED <<url, isLoading, notes, error, selectedMode, isDropdownOpen,
                 rateLimitInfo, isRateLimited, feedbackSubmitting,
                 feedbackSuccess, generateCalls, rateLimitCalls, feedbackCalls,
                 timers, attempts, settled, limited>>
  /\ UNCHANGED parserVars

\* onClick={() => setFeedback(prev => ({ ...prev, rating: star }))}
ClickStar ==
  /\ FormShown
  /\ \E star \in Stars : feedback' = [feedback EXCEPT !.rating = star]
  /\ UNCHANGED <<url, isLoading, notes, error, selectedMode, isDropdownOpen,
                 rateLimitInfo, isRateLimited, feedbackSubmitting,
                 feedbackSuccess, generateCalls, rateLimitCalls, feedbackCalls,
                 timers, attempts, settled, limited>>
  /\ UNCHANGED parserVars

\* onChange of the comment textarea and of the email input.
TypeFeedback ==
  /\ FormShown
  /\ \/ \E c \in Comments : feedback' = [feedback EXCEPT !.comment = c]
     \/ \E e \in Emails : feedback' = [feedback EXCEPT !.email = e]
  /\ UNCHANGED <<url, isLoading, notes, error, selectedMode, isDropdownOpen,
                 rateLimitInfo, isRateLimited, feedbackSubmitting,
                 feedbackSuccess, generateCalls, rateLimitCalls, feedbackCalls,
                 timers, attempts, settled, limited>>
  /\ UNCHANGED parserVars

\* handleSubmitFeedback up to its await: the alert for no rating, otherwise
\* setFeedbackSubmitting(true) and the fetch.
handleSubmitFeedback ==
  /\ IF feedback.rating = 0
     THEN UNCHANGED <<feedbackSubmitting, feedbackCalls>>
     ELSE /\ feedbackSubmitting' = TRUE
          /\ feedbackCalls' =
               Append(feedbackCalls,
                      [rating |-> feedback.rating, comment |-> feedback.comment,
                       mode_used |-> selectedMode, email |-> feedback.email])
  /\ UNCHANGED <<url, isLoading, notes, error, selectedMode, isDropdownOpen,
                 rateLimitInfo, isRateLimited, feedback, feedbackSuccess,
                 generateCalls, rateLimitCalls, timers, attempts, settled,
                 limited>>
  /\ UNCHANGED parserVars

\* onClick={handleSubmitFeedback} of the submit button, which has
\* disabled={feedbackSubmitting || feedback.rating === 0}.
ClickSubmit ==
  /\ FormShown
  /\ ~(feedbackSubmitting \/ feedback.rating = 0)
  /\ handleSubmitFeedback

\* handleSubmitFeedback after its await: response.ok shows the thanks and
\* starts the timeout of the reset, the catch block alerts, the finally
\* block ends the submission.
FeedbackSettles ==
  \E k \in 1..Len(feedbackCalls) : \E ok \in BOOLEAN :
    /\ feedbackCalls' = Remove(feedbackCalls, k)
    /\ IF ok
       THEN /\ feedbackSuccess' = TRUE
            /\ timers' = [timers EXCEPT !.reset = @ + 1]
       ELSE UNCHANGED <<feedbackSuccess, timers>>
    /\ feedbackSubmitting' = FALSE
    /\ UNCHANGED <<url, isLoading, notes, error, selectedMode, isDropdownOpen,
                   rateLimitInfo, isRateLimited, feedback, generateCalls,
                   rateLimitCalls, attempts, settled, limited>>
    /\ UNCHANGED parserVars

\* The timeout of handleSubmitFeedback: the modal closes and empties.
ResetFeedback ==
  /\ timers.reset > 0
  /\ timers' = [timers EXCEPT !.reset = @ - 1]
  /\ feedback' = NoFeedback
  /\ feedbackSuccess' = FALSE
  /\ UNCHANGED <<url, isLoading, notes, error, selectedMode, isDropdownOpen,
                 rateLimitInfo, isRateLimited, feedbackSubmitting,
                 generateCalls, rateLimitCalls, feedbackCalls, attempts,
                 settled, limited>>
  /\ UNCHANGED parserVars

\* What can happen on the page around a generation: the answers of the
\* server, the user at the url input, the mode dropdown and the two buttons,
\* and the timeout that a generation starts.
NextPage ==
  \/ RateLimitSettles
  \/ SetUrl
  \/ ToggleDropdown
  \/ SelectMode
  \/ ClickGenerate
  \/ PressEnter
  \/ GenerateSettles
  \/ NewNote
  \/ OpenFeedback

\* The page before parseMarkdown is called for the first time.
InitPage ==
  /\ pc = "idle"
  /\ text = StringInput(<<>>)
  /\ lines = <<>>
  /\ elements = <<>>
  /\ i = 0
  /\ h1Count = 0
  /\ h2Count = 0
  /\ iterations = 0
  /\ returned = <<>>
  /\ Mounted

SpecPage == InitPage /\ [][NextPage]_vars

\* The answer to every generation request comes, and the code after the
\* await runs: a fetch settles, and a settled promise's reaction is run.
SpecPageFair == SpecPage /\ WF_vars(GenerateSettles)

\* What can happen in and to the feedback modal.
NextFeedback ==
  \/ OpenFeedback
  \/ CloseFeedback
  \/ ClickStar
  \/ TypeFeedback
  \/ ClickSubmit
  \/ FeedbackSettles
  \/ ResetFeedback

\* The page once its generations have succeeded and every answer has come:
\* the notes are shown, and each generation has left a timeout that opens
\* the feedback modal.
InitFeedback ==
  /\ pc = "idle"
  /\ text = StringInput(<<>>)
  /\ lines = <<>>
  /\ elements = <<>>
  /\ i = 0
  /\ h1Count = 0
  /\ h2Count = 0
  /\ iterations = 0
  /\ returned = <<>>
  /\ url = <<" ", "u", " ">>
  /\ isLoading = FALSE
  /\ notes = "# a"
  /\ error = ""
  /\ selectedMode \in Modes
  /\ isDropdownOpen = FALSE
  /\ rateLimitInfo = RateLimit(0)
  /\ isRateLimited = FALSE
  /\ feedback = NoFeedback
  /\ feedbackSubmitting = FALSE
  /\ feedbackSuccess = FALSE
  /\ generateCalls = <<>>
  /\ rateLimitCalls = 0
  /\ feedbackCalls = <<>>
  /\ timers = [open |-> MaxAttempts, reset |-> 0]
  /\ attempts = MaxAttempts
  /\ settled = [kind |-> "markdown"]
  /\ limited = FALSE

SpecFeedback == InitFeedback /\ [][NextFeedback]_vars

\* ------------------------------------------------------------------------
\* Notions the properties are stated with
\* ------------------------------------------------------------------------

\* The position of the first character of l that is no whitespace
\* (Len(l) + 1 when there is none).
FirstInk(l) ==
  IF \E k \in 1..Len(l) : l[k] \notin WS
  THEN CHOOSE k \in 1..Len(l) : l[k] \notin WS /\ \A m \in 1..(k - 1) : l[m] \in WS
  ELSE Len(l) + 1

Blank(l) == \A k \in 1..Len(l) : l[k] \in WS

\* The trimmed line starts with three backticks.
OpensFence(l) ==
  LET f == FirstInk(l)
  IN  f + 2 <= Len(l) /\ \A k \in f..(f + 2) : l[k] = "BACKTICK"

\* 1 to 6 '#' at the start of the line, then a whitespace.
LooksLikeHeading(l) ==
  \E n \in 1..6 :
    /\ n + 1 <= Len(l)
    /\ \A k \in 1..n : l[k] = "#"
    /\ l[n + 1] \in WS

\* The trimmed line starts with '|'.
OpensTable(l) == FirstInk(l) <= Len(l) /\ l[FirstInk(l)] = "|"

\* A bullet item: '*' or '-', whitespace, text.
BulletItem(l) == Len(l) >= 3 /\ l[1] \in {"*", "-"} /\ l[2] \in WS

\* A numbered item: digits, a dot, whitespace, text.
NumberedItem(l) ==
  \E d \in 1..Len(l) :
    /\ \A k \in 1..d : l[k] \in Digits
    /\ d + 3 <= Len(l)
    /\ l[d + 1] = "."
    /\ l[d + 2] \in WS

ItemStart(l) == BulletItem(l) \/ NumberedItem(l)

\* The kind of block the dispatch order gives a line that is not blank.
KindOf(l) ==
  IF OpensFence(l) THEN "code"
  ELSE IF LooksLikeHeading(l) THEN "heading"
  ELSE IF OpensTable(l) THEN "table"
  ELSE IF ItemStart(l) THEN "list"
  ELSE "p"

\* The lines j..k of the input (0-based, both included).
LinesFromTo(j, k) == [n \in 1..(k - j + 1) |-> LineAt(j + n - 1)]

LastBlock == elements[Len(elements)]

\* ------------------------------------------------------------------------
\* Properties
\* ------------------------------------------------------------------------

\* C1: the cursor never decreases and every iteration of the scanner loop
\* moves it forward by at least one line; the loop body is entered at most
\* once per line and the cursor stops at most one past the end of the
\* input: the loop cannot run forever.
C1_CursorAdvancesUntilReturn ==
  /\ [][i' >= i /\ (iterations' # iterations => i' >= i + 1)]_vars
  /\ [](iterations <= Len(lines) /\ iterations <= i /\ i <= Len(lines) + 1)

\* A parse returned after a fence that is never closed took the rest of the
\* input of more than one line.
C1_Witness ==
  /\ pc = "done"
  /\ Len(lines) >= 2
  /\ i = Len(lines) + 1
  /\ elements # <<>>
  /\ LastBlock.kind = "code"

\* C2: the line ranges of the blocks are not empty, in source order and
\* disjoint; every line the cursor has passed is in exactly one range,
\* except blank lines, which may be in none; a returned parse has passed
\* every line.
C2_RangesTileTheInput ==
  pc \in {"scan", "done"} =>
    /\ \A k \in 1..Len(elements) : elements[k].from < elements[k].to
    /\ \A k \in 1..(Len(elements) - 1) : elements[k].to <= elements[k + 1].from
    /\ \A j \in 0..(Len(lines) - 1) :
         j < i =>
           LET owners == {k \in 1..Len(elements) :
                            elements[k].from <= j /\ j < elements[k].to}
           IN  IF Blank(LineAt(j)) THEN Cardinality(owners) <= 1
               ELSE Cardinality(owners) = 1
    /\ (pc = "done" => i >= Len(lines))

\* A returned parse with two blocks and a skipped blank line between them.
C2_Witness ==
  /\ pc = "done"
  /\ Len(elements) = 2
  /\ \E j \in 0..(Len(lines) - 1) :
       /\ Blank(LineAt(j))
       /\ elements[1].to <= j
       /\ j < elements[2].from

\* C3: an iteration on a line that is not blank pushes one block, of the
\* kind the order fence, heading, table, list item, paragraph gives the line.
C3_FirstMatchWins ==
  [][(pc = "scan" /\ HasLine(i) /\ ~Blank(LineAt(i))) =>
       /\ Len(elements') = Len(elements) + 1
       /\ elements'[Len(elements')].kind = KindOf(LineAt(i))]_vars

\* A returned parse of '#T' (a paragraph: no whitespace after the '#'), an
\* indented fence (a code block: the fence test trims) and more.
C3_Witness ==
  /\ pc = "done"
  /\ Len(elements) >= 2
  /\ LineAt(0) = HashT
  /\ elements[1].kind = "p"
  /\ LineAt(1) = IndentedFence
  /\ elements[2].kind = "code"

\* C4: no call throws, and a call with an empty string or with a value
\* that is no string returns no block.
C4_TotalAndEmptyOnNonText ==
  /\ pc # "threw"
  /\ (pc = "done" /\ (~text.isString \/ text.chars = <<>>)) => elements = <<>>

\* A call with a truthy value that is no string returned no block.
C4_Witness ==
  /\ pc = "done"
  /\ ~text.isString
  /\ text.truthy
  /\ elements = <<>>

\* The code lines of a block that starts on line f and whose fence is not
\* closed before line c.
Closers(f) == {j \in (f + 1)..(Len(lines) - 1) : OpensFence(LineAt(j))}

Least(S) == CHOOSE m \in S : \A n \in S : m <= n

\* C5: a code block whose fence is never closed holds every line after the
\* fence line as it is, is the last block and leaves the cursor one past the
\* end with no error; a code block whose fence is closed holds the lines up
\* to the first later fence line, and the next block starts after that line,
\* on it when the next line is not blank.
C5_FenceRunsToCloserOrEnd ==
  \A k \in 1..Len(elements) :
    elements[k].kind = "code" =>
      LET b == elements[k]
          cs == Closers(b.from)
      IN  IF cs = {}
          THEN /\ b.to = Len(lines) + 1
               /\ b.codeLines = LinesFromTo(b.from + 1, Len(lines) - 1)
               /\ k = Len(elements)
               /\ i = Len(lines) + 1
               /\ pc \in {"scan", "done"}
          ELSE LET c == Least(cs)
               IN  /\ b.to = c + 1
                   /\ b.codeLines = LinesFromTo(b.from + 1, c - 1)
                   /\ i >= c + 1
                   /\ k < Len(elements) => elements[k + 1].from >= c + 1
                   /\ (pc = "done" /\ c + 1 < Len(lines) /\ ~Blank(LineAt(c + 1)))
                        => k < Len(elements) /\ elements[k + 1].from = c + 1

\* A returned parse whose only block is a code block that took two lines up
\* to the end of the input.
C5_Witness ==
  /\ pc = "done"
  /\ Len(elements) = 1
  /\ elements[1].kind = "code"
  /\ Closers(elements[1].from) = {}
  /\ Len(elements[1].codeLines) = 2
  /\ elements[1].codeLines[1] # <<>>

\* C6: the fence line with language go, the line 'func main() {}' and a
\* final newline give one code block of language go whose lines are just
\* that one line.
C6_TrailingNewlineAddsNoCodeLine ==
  (pc = "done" /\ text = TextOf(<<FenceGo, FuncMain, Empty>>)) =>
    /\ Len(elements) = 1
    /\ elements[1].kind = "code"
    /\ elements[1].language = <<"g", "o">>
    /\ elements[1].codeLines = <<FuncMain>>

\* C7: a table line whose cells are all dropped gives no row, so no body row
\* is empty; '| A | B |', '| --- | --- |', '| 1 | 2 |' give the header A, B
\* and the one body row 1, 2.
C7_SeparatorLineGivesNoRow ==
  /\ \A k \in 1..Len(elements) :
       elements[k].kind = "table" =>
         \A r \in 1..Len(elements[k].bodyRows) : elements[k].bodyRows[r] # <<>>
  /\ (pc = "done" /\ text = TextOf(<<RowAB, RowSep, Row12>>)) =>
       /\ Len(elements) = 1
       /\ elements[1].kind = "table"
       /\ elements[1].headerRow = << <<"A">>, <<"B">> >>
       /\ elements[1].bodyRows = << << <<"1">>, <<"2">> >> >>

\* C8: the header of a table is the cells kept from its first line and each
\* body row is the cells kept from its own line, one row per line, whatever
\* the length of the header; '| A | B |', '| 1 |' give the header A, B and
\* the one body row 1.
C8_RowsKeepTheirOwnCells ==
  /\ \A k \in 1..Len(elements) :
       elements[k].kind = "table" =>
         LET b == elements[k]
         IN  /\ b.headerRow = Cells(LineAt(b.from))
             /\ Len(b.bodyRows) = b.to - b.from - 1
             /\ \A r \in 1..Len(b.bodyRows) : b.bodyRows[r] = Cells(LineAt(b.from + r))
  /\ (pc = "done" /\ text = TextOf(<<RowAB, Row1>>)) =>
       /\ Len(elements) = 1
       /\ elements[1].kind = "table"
       /\ elements[1].headerRow = << <<"A">>, <<"B">> >>
       /\ elements[1].bodyRows = << << <<"1">> >> >>

\* A returned parse with a table of a two-cell header and a one-cell row.
C8_Witness ==
  /\ pc = "done"
  /\ \E k \in 1..Len(elements) :
       /\ elements[k].kind = "table"
       /\ Len(elements[k].headerRow) = 2
       /\ Len(elements[k].bodyRows) = 1
       /\ Len(elements[k].bodyRows[1]) = 1

\* At least two whitespace characters at the start of the line.
Indented(l) == Len(l) >= 2 /\ l[1] \in WS /\ l[2] \in WS

\* C9: a list is ordered when its first line is a numbered item; its lines
\* are item lines of either kind and indented lines, with one item per item
\* line; the line after it, if any, is neither, so the next list is another
\* run.
C9_FirstItemFixesOrdered ==
  \A k \in 1..Len(elements) :
    elements[k].kind = "list" =>
      LET b == elements[k]
      IN  /\ ItemStart(LineAt(b.from))
          /\ b.isOrdered = NumberedItem(LineAt(b.from))
          /\ \A j \in b.from..(b.to - 1) : ItemStart(LineAt(j)) \/ Indented(LineAt(j))
          /\ Len(b.listItems) =
               Cardinality({j \in b.from..(b.to - 1) : ItemStart(LineAt(j))})
          /\ b.to < Len(lines) =>
               ~ItemStart(LineAt(b.to)) /\ ~Indented(LineAt(b.to))
          /\ (k < Len(elements) /\ elements[k + 1].kind = "list") =>
               elements[k + 1].from > b.to

\* A returned parse with a list that is not ordered and holds a numbered
\* item after its first item.
C9_Witness ==
  /\ pc = "done"
  /\ \E k \in 1..Len(elements) :
       /\ elements[k].kind = "list"
       /\ ~elements[k].isOrdered
       /\ Len(elements[k].listItems) >= 2
       /\ \E j \in (elements[k].from + 1)..(elements[k].to - 1) : NumberedItem(LineAt(j))

\* A line folded into the item before it: at least two leading spaces, and
\* the text after them does not begin a bullet or a numbered item.
FoldedLine(l) ==
  /\ Len(l) >= 2 /\ l[1] = " " /\ l[2] = " "
  /\ ~ItemStart(TrimStart(l))

\* C10: the lines of a list that are no item lines are folded lines, and the
\* line after the list is none; '- item one', '  continued', '- item two'
\* give one list, not ordered, of 'item one continued' and 'item two'.
C10_IndentedMarkerLineIsNotFolded ==
  /\ \A k \in 1..Len(elements) :
       elements[k].kind = "list" =>
         /\ \A j \in (elements[k].from + 1)..(elements[k].to - 1) :
              ItemStart(LineAt(j)) \/ FoldedLine(LineAt(j))
         /\ elements[k].to < Len(lines) => ~FoldedLine(LineAt(elements[k].to))
  /\ (pc = "done" /\ text = TextOf(<<ItemOne, Continued, ItemTwo>>)) =>
       /\ Len(elements) = 1
       /\ elements[1].kind = "list"
       /\ ~elements[1].isOrdered
       /\ elements[1].listItems =
            << Drop(ItemOne, 2) \o <<" ">> \o Drop(Continued, 2), Drop(ItemTwo, 2) >>

\* ------------------------------------------------------------------------
\* C11
\* ------------------------------------------------------------------------

\* The number of '#' a line starts with.
RECURSIVE LeadingHashes(_)
LeadingHashes(l) ==
  IF l # <<>> /\ Head(l) = "#" THEN 1 + LeadingHashes(Tail(l)) ELSE 0

\* C11: every heading of the result has a level between 1 and 6, the number
\* of '#' its line starts with, and no block made from a line that starts
\* with seven or more '#' is a heading.
C11_LevelIsTheHashCount ==
  \A k \in 1..Len(elements) :
     LET b == elements[k]
         n == LeadingHashes(LineAt(b.from))
     IN  /\ b.kind = "heading" => b.level \in 1..6 /\ b.level = n
         /\ n >= 7 => b.kind # "heading"

\* A heading of level 6 and a block from a line of seven '#' in one result.
C11_Witness ==
  /\ pc = "done"
  /\ \E k \in 1..Len(elements) : elements[k].kind = "heading" /\ elements[k].level = 6
  /\ \E k \in 1..Len(elements) :
        LeadingHashes(LineAt(elements[k].from)) = 7 /\ elements[k].kind = "p"

\* ------------------------------------------------------------------------
\* C20
\* ------------------------------------------------------------------------

\* The positions in the result of the headings of level n before position k.
EarlierHeadings(n, k) ==
  {j \in 1..(k - 1) : elements[j].kind = "heading" /\ elements[j].level = n}

\* C20: during a parse h1Count and h2Count are the numbers of headings of
\* level 1 and of level 2 in the result so far, and a heading has the
\* page-break class exactly when its level is 1 or 2 and an earlier heading
\* of the result has the same level; headings of another level, of either
\* count, change nothing for a level.
C20_CountersAndRepeatHint ==
  pc \in {"scan", "done"} =>
    /\ h1Count = Cardinality(EarlierHeadings(1, Len(elements) + 1))
    /\ h2Count = Cardinality(EarlierHeadings(2, Len(elements) + 1))
    /\ \A k \in 1..Len(elements) :
          elements[k].kind = "heading" =>
            (elements[k].breakClass <=>
               /\ elements[k].level \in {1, 2}
               /\ EarlierHeadings(elements[k].level, k) # {})

\* A second heading of level 2 with the class after a heading of level 1
\* without it, and a second heading of level 3 without it.
C20_Witness ==
  /\ pc = "done"
  /\ \E k \in 1..Len(elements) :
        /\ elements[k].kind = "heading" /\ elements[k].level = 2
        /\ elements[k].breakClass
        /\ \E j \in (k + 1)..Len(elements) :
              /\ elements[j].kind = "heading" /\ elements[j].level = 1
              /\ ~elements[j].breakClass
  /\ h1Count = 1
  /\ h2Count = 2

\* Two headings of level 3: the second has no class.
C20_WitnessLevelThree ==
  /\ pc = "done"
  /\ \E k \in 2..Len(elements) :
        /\ elements[k].kind = "heading" /\ elements[k].level = 3
        /\ EarlierHeadings(3, k) # {}
        /\ ~elements[k].breakClass

\* ------------------------------------------------------------------------
\* C12
\* ------------------------------------------------------------------------

\* decoded, put together again from the lines it was split into.
Decoded == Join(lines, "LF")

\* The call went past the early return: decoded was computed.
Normalized == pc # "idle" /\ text.isString /\ text.truthy

\* s holds one of the patterns of the correction table.
HoldsPattern(s) ==
  \E n \in 1..Len(CorrectionTable) : \E k \in 1..Len(s) :
     MatchAt(s, CorrectionTable[n][1], k)

\* s holds no '&', so no character reference, and no pattern of the table.
Clean(s) == (\A k \in 1..Len(s) : s[k] # "&") /\ ~HoldsPattern(s)

C13_EveryEntryIsEffective ==
  Normalized =>
    /\ \A n \in 1..Len(CorrectionTable) :
          text.chars = CorrectionTable[n][1] => Decoded = CorrectionTable[n][2]
    /\ ~HoldsPattern(decodeHtmlEntities(text.chars)) =>
          Decoded = decodeHtmlEntities(text.chars)

\* ------------------------------------------------------------------------
\* C14
\* ------------------------------------------------------------------------

\* The texts a block shows, each with what is rendered for it: the string
\* given to dangerouslySetInnerHTML, or the text itself where it is rendered
\* as a text child.
Shown(b) ==
  CASE b.kind = "p" -> {<<LineAt(b.from), b.content>>}
    [] b.kind = "heading" -> {<<b.content, b.content>>}
    [] b.kind = "list" ->
         {<<b.listItems[k], b.itemsHtml[k]>> : k \in 1..Len(b.listItems)}
    [] b.kind = "table" ->
         {<<b.headerRow[c], b.headerRow[c]>> : c \in 1..Len(b.headerRow)}
           \cup UNION {
             UNION {
               LET parts == SplitBrFrom(b.bodyRows[r][c], 1, <<>>, <<>>)
               IN  {<<parts[n], b.bodyHtml[r][c][n]>> : n \in 1..Len(parts)}
               : c \in 1..Len(b.bodyRows[r])}
             : r \in 1..Len(b.bodyRows)}
    [] OTHER -> {}

\* The five rules, bold before italic before code, on one text.
FiveRules(t) ==
  Wrap(Wrap(Wrap(Wrap(Wrap(t, <<"*", "*">>, StrongOpen, StrongClose),
                      <<"*">>, EmOpen, EmClose),
                 <<"_", "_">>, StrongOpen, StrongClose),
            <<"_">>, EmOpen, EmClose),
       <<"BACKTICK">>, CodeOpen, CodeClose)

\* C14: whatever block shows a text (a heading, a paragraph, a list item, a
\* header cell or a part of a body cell), what is rendered for it is the text
\* with the same five rules applied.
C14_SameRulesInEveryBlock ==
  \A k \in 1..Len(elements) :
     \A sh \in Shown(elements[k]) : sh[2] = FiveRules(sh[1])

\* ------------------------------------------------------------------------
\* C15
\* ------------------------------------------------------------------------

OpeningTags == {StrongOpen, EmOpen, CodeOpen}
ClosingTags == {StrongClose, EmClose, CodeClose}

\* The opening tag a closing tag closes.
OpeningOf(t) ==
  CASE t = StrongClose -> StrongOpen
    [] t = EmClose -> EmOpen
    [] t = CodeClose -> CodeOpen

\* From position k of h, with the given tags open (the innermost first),
\* every closing tag closes the innermost open tag and none stays open.
RECURSIVE NestsFrom(_, _, _)
NestsFrom(h, k, open) ==
  IF k > Len(h) THEN open = <<>>
  ELSE IF h[k] \in OpeningTags THEN NestsFrom(h, k + 1, <<h[k]>> \o open)
  ELSE IF h[k] \in ClosingTags
       THEN /\ open # <<>>
            /\ Head(open) = OpeningOf(h[k])
            /\ NestsFrom(h, k + 1, Tail(open))
  ELSE NestsFrom(h, k + 1, open)

\* C15: in what is rendered for a text the bold, italic and code spans are
\* nested or apart, never overlapping in part: every closing tag closes the
\* span opened last.
C15_SpansAreWellNested ==
  \A k \in 1..Len(elements) :
     \A sh \in Shown(elements[k]) : NestsFrom(sh[2], 1, <<>>)

\* ------------------------------------------------------------------------
\* C16
\* ------------------------------------------------------------------------

MarkerChars == {"*", "_", "BACKTICK"}

\* No marker of t has a marker to close it: each marker character stands in
\* t at most twice, and then side by side.
Unpaired(t) ==
  \A c \in MarkerChars :
     LET ps == {k \in 1..Len(t) : t[k] = c}
     IN  Cardinality(ps) <= 2 /\ \A k \in ps : \A m \in ps : m - k <= 1

TextOfRuns(h) == SelectSeq(h, LAMBDA c : c \notin OpeningTags \cup ClosingTags)

\* The characters of t that are no marker character.
Unmarked(t) == SelectSeq(t, LAMBDA c : c \notin MarkerChars)

\* How many times tag stands in h.
Count(h, tag) == Cardinality({k \in 1..Len(h) : h[k] = tag})

\* a is b with some characters left out.
RECURSIVE IsSubsequence(_, _)
IsSubsequence(a, b) ==
  IF a = <<>> THEN TRUE
  ELSE IF b = <<>> THEN FALSE
  ELSE IF Head(a) = Head(b) THEN IsSubsequence(Tail(a), Tail(b))
  ELSE IsSubsequence(a, Tail(b))

\* C17: what is rendered for a text, with the tags taken out, is the text
\* with marker characters left out and nothing else changed: the other
\* characters are all there in their order, and the characters left out are
\* the two markers of each span, four for a bold span and two for an italic
\* or a code span.
C17_OnlyMarkersAreRemoved ==
  \A k \in 1..Len(elements) :
     \A sh \in Shown(elements[k]) :
        LET t == sh[1]
            h == sh[2]
        IN  /\ IsSubsequence(TextOfRuns(h), t)
            /\ Unmarked(TextOfRuns(h)) = Unmarked(t)
            /\ Len(t) = Len(TextOfRuns(h)) + 4 * Count(h, StrongOpen)
                          + 2 * Count(h, EmOpen) + 2 * Count(h, CodeOpen)
            /\ \A o \in OpeningTags :
                  \E c \in ClosingTags : OpeningOf(c) = o /\ Count(h, c) = Count(h, o)

\* A paragraph with an italic span that starts with a blank.
C17_Witness ==
  /\ pc = "done"
  /\ \E k \in 1..Len(elements) :
        /\ elements[k].kind = "p"
        /\ \E n \in 1..(Len(elements[k].content) - 1) :
              elements[k].content[n] = EmOpen /\ elements[k].content[n + 1] = " "

\* ------------------------------------------------------------------------
\* C18
\* ------------------------------------------------------------------------

\* Position k of h is inside a code span: a code span was opened before it
\* and not closed since.
InsideCode(h, k) ==
  \E p \in 1..(k - 1) :
     h[p] = CodeOpen /\ \A q \in (p + 1)..(k - 1) : h[q] # CodeClose

\* C18: no bold or italic span starts inside a code span.
C18_NoEmphasisInsideCode ==
  \A k \in 1..Len(elements) :
     \A sh \in Shown(elements[k]) :
        \A n \in 1..Len(sh[2]) :
           sh[2][n] \in {StrongOpen, EmOpen} => ~InsideCode(sh[2], n)

\* ------------------------------------------------------------------------
\* C19
\* ------------------------------------------------------------------------

\* C19: a call returns what every earlier call on the same text returned,
\* whatever was parsed before it or in between.
C19_SameTextSameBlocks ==
  pc = "done" =>
    \A k \in 1..Len(returned) :
       returned[k].text = text => returned[k].elements = elements

\* The third call is on the text of the first, with another text parsed in
\* between; both texts have headings, and the second heading of the text
\* has the page-break class.
C19_Witness ==
  /\ pc = "done"
  /\ Len(returned) = 2
  /\ returned[1].text = text
  /\ returned[2].text # text
  /\ \E k \in 1..Len(returned[2].elements) : returned[2].elements[k].kind = "heading"
  /\ Len(elements) = 2
  /\ elements[1].kind = "heading" /\ ~elements[1].breakClass
  /\ elements[2].kind = "heading" /\ elements[2].breakClass

\* ------------------------------------------------------------------------
\* C21
\* ------------------------------------------------------------------------

\* What a heading line holds after its '#' and the whitespace that follows
\* them, without the whitespace at its end.
HeadingText(l) ==
  LET rest == SubSeq(l, LeadingHashes(l) + 1, Len(l))
      ink == {k \in 1..Len(rest) : rest[k] \notin WS}
  IN  IF ink = {} THEN <<>>
      ELSE SubSeq(rest, CHOOSE k \in ink : \A o \in ink : k <= o,
                        CHOOSE k \in ink : \A o \in ink : o <= k)

\* t without a "**" at its start, and without a "**" at its end.
WithoutOpening(t) ==
  IF Len(t) >= 2 /\ t[1] = "*" /\ t[2] = "*" THEN SubSeq(t, 3, Len(t)) ELSE t

WithoutClosing(t) ==
  IF Len(t) >= 2 /\ t[Len(t) - 1] = "*" /\ t[Len(t)] = "*"
  THEN SubSeq(t, 1, Len(t) - 2) ELSE t

\* t without the whitespace at its ends.
Bare(t) ==
  LET ink == {k \in 1..Len(t) : t[k] \notin WS}
  IN  IF ink = {} THEN <<>>
      ELSE SubSeq(t, CHOOSE k \in ink : \A o \in ink : k <= o,
                     CHOOSE k \in ink : \A o \in ink : o <= k)

\* C21: the content of a heading is the text of its line with at most a
\* "**" at its start and a "**" at its end taken off: every "**" inside the
\* text is still there.
C21_OnlyEnclosingStarsStripped ==
  \A k \in 1..Len(elements) :
     elements[k].kind = "heading" =>
       LET t == HeadingText(LineAt(elements[k].from))
       IN  elements[k].content \in
             { t, Bare(WithoutOpening(t)), Bare(WithoutClosing(t)),
               Bare(WithoutClosing(WithoutOpening(t))) }

\* ------------------------------------------------------------------------
\* C28
\* ------------------------------------------------------------------------

\* The lines the cursor has passed that are in the range of no block.
Skipped ==
  {j \in 0..(i - 1) :
     /\ j < Len(lines)
     /\ \A k \in 1..Len(elements) : ~(elements[k].from <= j /\ j < elements[k].to)}

\* C28: the iterations so far are the blocks pushed plus the blank lines
\* skipped: an iteration on a line that is not blank pushed one block, an
\* iteration on a blank line none.  A block that starts on a line whose
\* first character after whitespace is '|' is a table, whatever cells its
\* first row keeps, and there are no more blocks than lines that are not
\* blank.
C28_OneBlockPerInkedIteration ==
  pc \in {"scan", "done"} =>
    /\ iterations = Len(elements) + Cardinality(Skipped)
    /\ \A j \in Skipped : Blank(LineAt(j))
    /\ \A k \in 1..Len(elements) :
          /\ ~Blank(LineAt(elements[k].from))
          /\ OpensTable(LineAt(elements[k].from)) => elements[k].kind = "table"
    /\ Len(elements) <=
          Cardinality({j \in 0..(Len(lines) - 1) : ~Blank(LineAt(j))})

\* A returned parse with a table whose header row is empty and a blank line
\* that gave no block.
C28_Witness ==
  /\ pc = "done"
  /\ Skipped # {}
  /\ \E k \in 1..Len(elements) :
        elements[k].kind = "table" /\ elements[k].headerRow = <<>>

\* ------------------------------------------------------------------------
\* C29
\* ------------------------------------------------------------------------

\* The last block is a code block whose fence no later line closes.
EndsInOpenFence ==
  /\ elements # <<>>
  /\ LastBlock.kind = "code"
  /\ Closers(LastBlock.from) = {}

\* C29: no line is read outside the array (such a read would end the call
\* with a TypeError), the cursor is never more than one past the end, and a
\* call that went through the loop returns with the cursor at lines.length,
\* or one past it when the input ends in a fence that is not closed.
C29_CursorEndsAtTheEnd ==
  /\ pc # "threw"
  /\ i <= Len(lines) + 1
  /\ (pc = "done" /\ Normalized) =>
        i = IF EndsInOpenFence THEN Len(lines) + 1 ELSE Len(lines)

\* A returned parse of a closed fence and then a fence that is not closed.
C29_Witness ==
  /\ pc = "done"
  /\ Len(elements) = 2
  /\ elements[1].kind = "code"
  /\ Closers(elements[1].from) # {}
  /\ EndsInOpenFence
  /\ i = Len(lines) + 1

\* ------------------------------------------------------------------------
\* C24: when a generation request is sent, and what it carries
\* ------------------------------------------------------------------------

\* The positions of s that hold something else than white space.
Inked(s) == {k \in 1..Len(s) : s[k] \notin {" ", "TAB", "LF", "CR"}}

\* s from its first to its last character that is no white space.
Stripped(s) ==
  IF Inked(s) = {} THEN <<>>
  ELSE LET first == CHOOSE k \in Inked(s) : \A j \in Inked(s) : k <= j
           last == CHOOSE k \in Inked(s) : \A j \in Inked(s) : j <= k
       IN  [k \in 1..(last - first + 1) |-> s[first + k - 1]]

\* The state in which a request may go out.
MaySend ==
  /\ Stripped(url) # <<>>
  /\ isRateLimited = FALSE
  /\ rateLimitInfo # Null
  /\ rateLimitInfo.remaining > 0

\* C24: a step sends a generation request only from a state with a url
\* that is not blank, isRateLimited false and a rateLimitInfo with
\* remaining > 0, and the request carries the trimmed url and one of the
\* three modes; a call of handleGenerate from any other state sends
\* nothing and leaves isLoading and notes as they are.
C24_RequestOnlyWhenAllowed ==
  [][ /\ generateCalls' # generateCalls /\ Len(generateCalls') >= Len(generateCalls)
        => /\ MaySend
           /\ generateCalls' =
                generateCalls \o <<[url |-> Stripped(url), mode |-> selectedMode]>>
           /\ selectedMode \in {"cornell", "dev", "summary"}
      /\ (ClickGenerate \/ PressEnter) /\ ~MaySend
        => UNCHANGED <<generateCalls, isLoading, notes>> ]_vars

C24_Witness ==
  /\ generateCalls = <<[url |-> <<"u">>, mode |-> "dev"]>>
  /\ url = <<" ", "u", " ">>
  /\ rateLimitInfo = [type |-> "object", remaining |-> 1]

\* ------------------------------------------------------------------------
\* C27: one generation request at a time
\* ------------------------------------------------------------------------

\* C27: there is never more than one generation request without its answer,
\* and no step taken while isLoading is true sends one.
C27_OneRequestInFlight ==
  /\ [](Len(generateCalls) <= 1)
  /\ [][isLoading = TRUE => attempts' = attempts]_vars

\* The button and the Enter key have what they need but isLoading is true.
C27_Witness ==
  /\ isLoading = TRUE
  /\ Len(generateCalls) = 1
  /\ MaySend

\* ------------------------------------------------------------------------
\* C26: isLoading comes back to false
\* ------------------------------------------------------------------------

\* C26: isLoading is true exactly while a generation request has no answer
\* yet, and whenever it is true it is false again later.
C26_LoadingEnds ==
  /\ [](isLoading = (generateCalls # <<>>))
  /\ (isLoading = TRUE) ~> (isLoading = FALSE)

\* An attempt that ended in the catch block.
C26_Witness ==
  /\ settled = [kind |-> "rejected"]
  /\ isLoading = FALSE
  /\ attempts = 1

\* ------------------------------------------------------------------------
\* C22: a failed generation leaves an error and no notes
\* ------------------------------------------------------------------------

\* The last generation request came back, and not with a 2xx status and a
\* markdown string.
FailedUpstream == settled.kind \in {"rejected", "malformed", "status", "null", "format"}

\* C22: once a generation failed upstream, and until the next request, the
\* error is not empty and the notes are.
C22_FailureShowsAnError == FailedUpstream => error # "" /\ notes = ""

\* ------------------------------------------------------------------------
\* C25: the rate limit stays reached
\* ------------------------------------------------------------------------

\* C25: after a 429 has set isRateLimited, it is true in every state.
C25_LimitStaysReached == limited = TRUE => isRateLimited = TRUE

\* ------------------------------------------------------------------------
\* C23: the rating of a feedback request
\* ------------------------------------------------------------------------

\* C23: the rating state is one of 0..5, every feedback request without its
\* answer has a rating of 1..5, and no step taken with a rating of 0 sends
\* a feedback request.
C23_RatingInRange ==
  /\ [](/\ feedback.rating \in 0..5
        /\ \A k \in 1..Len(feedbackCalls) : feedbackCalls[k].rating \in 1..5)
  /\ [][feedback.rating = 0 => Len(feedbackCalls') <= Len(feedbackCalls)]_vars

\* A request with five stars is on its way after the modal was closed and
\* opened again.
C23_Witness ==
  /\ Len(feedbackCalls) = 1
  /\ feedbackCalls[1].rating = 5
  /\ timers.open = 0
  /\ feedback.isOpen = TRUE

====
